---- MODULE Spec2Model ----
(***************************************************************************)
(* Multi-channel notification delivery core of College_Media:              *)
(*   - NotificationPreferences (shouldSend, isInQuietHours),               *)
(*   - Notification (markAsRead, markAsClicked, markChannelDelivered,      *)
(*     markAllRead, getDigestNotifications),                               *)
(*   - NotificationDispatcher.send and its asynchronous push completion,   *)
(*   - DigestScheduler (processDailyDigests, processWeeklyDigests,         *)
(*     sendDigestForUser) and EmailDigestService.sendDigest,               *)
(*   - the notification controller's read / click / delete / preference    *)
(*     endpoints.                                                          *)
(*                                                                         *)
(* Time is counted in whole hours since the start of day 0.  The cron      *)
(* jobs fire at every full hour; an hour in which no digest.time of the    *)
(* model's inputs falls matches no preference document, so the clock       *)
(* moves from one hour of TickHours to the next.                           *)
(***************************************************************************)
EXTENDS Integers, Sequences, FiniteSets, TLC

\* ------------------------------------------------------------- bounds
\* Number of events dispatched in one behaviour of the digest pipeline.
MaxNotifs == 2
\* Number of days the clock runs.
MaxDays == 1
\* Number of days the clock runs when a failed digest waits for its retry.
RetryDays == 2
\* Number of events dispatched in one behaviour of the dispatcher alone.
MaxDispatch == 1
\* Backup codes generated for a user when MFA is enabled.
CodesPerUser == 2

\* ---------------------------------------------------- program constants
HoursPerDay == 24
DaysPerWeek == 7
DailyLookbackDays == 1
WeeklyLookbackDays == 7
batchSize == 100
defaultLimit == 20
defaultUnreadLimit == 50
\* DEFAULT_CONFIG of the circuit breaker (milliseconds for the period).
failureThreshold == 5
successThreshold == 2
cooldownPeriod == 10000
\* Calls of execute on the breaker: enough to open it, probe it and close it.
MaxCalls == failureThreshold + successThreshold + 2
\* Date.now() is read every half cooldown period, up to three periods.
ClockStep == cooldownPeriod \div 2
MaxClock == 3 * cooldownPeriod

Users == {"u1", "u2"}
\* The users of a deployment in which one more user than a scan's find()
\* returns has chosen the same digest hour.
Crowd == {ToString(i) : i \in 1..(batchSize + 1)}
\* Account store: {id, email}; the users that have an email address.
UsersWithEmail == Users \cup Crowd
\* Hours of the day at which the model observes a cron tick.
TickHours == {9, 23}

NoTime == 0 - 1

Channels == {"email", "push", "inApp", "sms"}
CatChannels == {"email", "push", "inApp"}
Categories == {"social", "content", "messaging", "events", "system", "marketing"}
TypeEnum == {"like", "comment", "follow", "mention", "reply", "share", "message",
             "event", "post", "announcement", "system", "reminder", "digest",
             "achievement"}
Kinds == {"daily", "weekly"}

\* ------------------------------------------------ preference documents
\* Schema defaults of the per-category channel switches.
CategoryDefault(c, ch) ==
    IF c = "content" /\ ch = "email" THEN FALSE
    ELSE IF c = "marketing" /\ ch \in {"email", "push"} THEN FALSE
    ELSE TRUE

\* A time of day as stored: the characters of "HH:MM".
TimeString(h1, h2, m1, m2) == <<h1, h2, ":", m1, m2>>

\* A stored category switch is "on", "off" or "unset" (absent in the stored
\* document); a document read from the store has the schema default in
\* place of every absent switch.
DefaultPrefs ==
    [channels |-> [ch \in Channels |-> [enabled |-> (ch # "sms")]],
     categories |-> [c \in Categories |-> [ch \in CatChannels |-> "unset"]],
     digest |-> [frequency |-> "daily", time |-> <<9, 0>>, dayOfWeek |-> 1],
     pushSubscriptions |-> <<>>,
     quietHours |-> [enabled |-> FALSE,
                     startTime |-> TimeString("2", "2", "0", "0"),
                     endTime |-> TimeString("0", "8", "0", "0")]]

\* Loading a document with the absent switches left absent.
HydrateKeepsAbsent(p) == p

Hydrate(p) ==
    [p EXCEPT !.categories =
        [c \in Categories |-> [ch \in CatChannels |->
            IF p.categories[c][ch] = "unset"
            THEN (IF CategoryDefault(c, ch) THEN "on" ELSE "off")
            ELSE p.categories[c][ch]]]]

\* shouldSend with the master switch ignored once the category says "on".
ShouldSendCategoryWins(p, channel, category) ==
    IF category \in DOMAIN p.categories
       /\ channel \in DOMAIN p.categories[category]
       /\ p.categories[category][channel] # "unset"
    THEN p.categories[category][channel] = "on"
    ELSE channel \in DOMAIN p.channels /\ p.channels[channel].enabled

\* notificationPreferencesSchema.methods.shouldSend
ShouldSend(p, channel, category) ==
    IF ~(channel \in DOMAIN p.channels /\ p.channels[channel].enabled) THEN FALSE
    ELSE IF category \in DOMAIN p.categories
            /\ channel \in DOMAIN p.categories[category]
            /\ p.categories[category][channel] # "unset"
         THEN p.categories[category][channel] = "on"
         ELSE TRUE

Minutes(hm) == hm[1] * 60 + hm[2]

\* Number(s) for a string of decimal digits.
DigitValue(c) ==
    CHOOSE d \in 0..9 : <<"0", "1", "2", "3", "4", "5", "6", "7", "8", "9">>[d + 1] = c

RECURSIVE Number(_)
Number(chars) ==
    IF chars = <<>> THEN 0
    ELSE Number(SubSeq(chars, 1, Len(chars) - 1)) * 10 + DigitValue(chars[Len(chars)])

\* str.split(':').map(Number), for a string with one colon.
SplitTime(str) ==
    LET colon == CHOOSE i \in 1..Len(str) : str[i] = ":"
    IN <<Number(SubSeq(str, 1, colon - 1)), Number(SubSeq(str, colon + 1, Len(str)))>>

\* isInQuietHours with the end of the window included.
IsInQuietHoursClosedEnd(p, currentTime) ==
    IF ~p.quietHours.enabled THEN FALSE
    ELSE LET startTime == Minutes(SplitTime(p.quietHours.startTime))
             endTime == Minutes(SplitTime(p.quietHours.endTime))
         IN IF startTime < endTime
            THEN currentTime >= startTime /\ currentTime <= endTime
            ELSE currentTime >= startTime \/ currentTime <= endTime

\* notificationPreferencesSchema.methods.isInQuietHours; currentTime is the
\* current UTC time in minutes since midnight.
IsInQuietHours(p, currentTime) ==
    IF ~p.quietHours.enabled THEN FALSE
    ELSE LET startTime == Minutes(SplitTime(p.quietHours.startTime))
             endTime == Minutes(SplitTime(p.quietHours.endTime))
         IN IF startTime < endTime
            THEN currentTime >= startTime /\ currentTime < endTime
            ELSE currentTime >= startTime \/ currentTime < endTime

\* ------------------------------------------------------------ the clock
\* Weekday (0-6, Sunday = 0) of day 0 of the clock: the default digest day.
EpochWeekday == DefaultPrefs.digest.dayOfWeek

HourOf(t) == t % HoursPerDay
DayOf(t) == t \div HoursPerDay
WeekdayOf(t) == (DayOf(t) + EpochWeekday) % DaysPerWeek
NextTickTime(t) ==
    CHOOSE t2 \in (t + 1)..(t + HoursPerDay) :
        /\ HourOf(t2) \in TickHours
        /\ \A t3 \in (t + 1)..(t2 - 1) : HourOf(t3) \notin TickHours

\* -------------------------------------------------- notification records
\* new Notification({...}) with the schema defaults.
NewNotification(recipient, type, category, priority) ==
    [recipient |-> recipient, type |-> type, category |-> category,
     priority |-> priority,
     channels |-> [inApp |-> [delivered |-> FALSE, deliveredAt |-> NoTime],
                   push |-> [delivered |-> FALSE, deliveredAt |-> NoTime],
                   email |-> [delivered |-> FALSE, deliveredAt |-> NoTime,
                              includeInDigest |-> TRUE]],
     status |-> "pending",
     read |-> FALSE, readAt |-> NoTime,
     clicked |-> FALSE, clickedAt |-> NoTime,
     retryCount |-> 0, lastRetryAt |-> NoTime,
     createdAt |-> NoTime]

\* markChannelDelivered moving a pending record to 'sent'.
MarkChannelDeliveredAsSent(doc, channel, t) ==
    IF channel \in DOMAIN doc.channels
    THEN [doc EXCEPT !.channels[channel].delivered = TRUE,
                     !.channels[channel].deliveredAt = t,
                     !.status = IF doc.status = "pending" THEN "sent" ELSE @]
    ELSE doc

\* notificationSchema.methods.markChannelDelivered, the in-memory part.
MarkChannelDelivered(doc, channel, t) ==
    IF channel \in DOMAIN doc.channels
    THEN [doc EXCEPT !.channels[channel].delivered = TRUE,
                     !.channels[channel].deliveredAt = t,
                     !.status = IF doc.status = "pending" THEN "delivered" ELSE @]
    ELSE doc

\* notificationSchema.methods.markAsRead, the in-memory part.
MarkAsRead(doc, t) ==
    [doc EXCEPT !.read = TRUE, !.readAt = t, !.status = "read"]

\* markAsClicked without the `if (!this.read)` block.
MarkAsClickedOnly(doc, t) ==
    [doc EXCEPT !.clicked = TRUE, !.clickedAt = t]

\* notificationSchema.methods.markAsClicked, the in-memory part.
MarkAsClicked(doc, t) ==
    [doc EXCEPT !.clicked = TRUE, !.clickedAt = t,
                !.read = TRUE,
                !.readAt = IF doc.read THEN @ ELSE t]

\* Schema validation at save: type must be one of the enum.
Valid(doc) == doc.type \in TypeEnum /\ doc.category \in Categories

\* inferCategory with the share and post entries missing from the map.
InferCategoryNoContent(type) ==
    IF type \in {"like", "comment", "follow", "mention", "reply"} THEN "social"
    ELSE IF type = "message" THEN "messaging"
    ELSE IF type = "event" THEN "events"
    ELSE "system"

\* NotificationDispatcher.inferCategory
InferCategory(type) ==
    IF type \in {"like", "comment", "follow", "mention", "reply"} THEN "social"
    ELSE IF type \in {"share", "post"} THEN "content"
    ELSE IF type = "message" THEN "messaging"
    ELSE IF type = "event" THEN "events"
    ELSE "system"

\* ------------------------------------------- the dispatcher's decisions
\* Step 4 of send with the priority test dropped.
PushGateNoUrgent(pushAllowed, quiet, priority) ==
    pushAllowed /\ ~quiet

\* Step 4 of send: quiet hours suppress push unless the priority is urgent.
PushGate(pushAllowed, quiet, priority) ==
    IF pushAllowed /\ quiet /\ priority # "urgent" THEN FALSE ELSE pushAllowed

\* Step 5 of send with the isUserOnline test dropped.
InAppStepAnySession(doc, inAppAllowed, online, t) ==
    IF inAppAllowed THEN MarkChannelDelivered(doc, "inApp", t) ELSE doc

\* Step 5 of send: live emission and the in-app delivered flag.
InAppStep(doc, inAppAllowed, online, t) ==
    IF inAppAllowed /\ online THEN MarkChannelDelivered(doc, "inApp", t) ELSE doc

\* Step 7 of send with the immediate branch leaving includeInDigest alone.
EmailStepKeepsDigestFlag(doc, emailAllowed, frequency, t) ==
    IF emailAllowed
    THEN IF frequency = "never" \/ doc.priority = "urgent"
         THEN MarkChannelDelivered(doc, "email", t)
         ELSE [doc EXCEPT !.channels.email.includeInDigest = TRUE]
    ELSE [doc EXCEPT !.channels.email.includeInDigest = FALSE]

\* Step 7 of send with the digest flag left set when email is not allowed.
EmailStepNoDisable(doc, emailAllowed, frequency, t) ==
    IF emailAllowed /\ (frequency = "never" \/ doc.priority = "urgent")
    THEN [MarkChannelDelivered(doc, "email", t)
            EXCEPT !.channels.email.includeInDigest = FALSE]
    ELSE [doc EXCEPT !.channels.email.includeInDigest = TRUE]

\* Step 7 of send with every allowed email treated as immediate.
EmailStepAlwaysImmediate(doc, emailAllowed, frequency, t) ==
    IF emailAllowed
    THEN [MarkChannelDelivered(doc, "email", t)
            EXCEPT !.channels.email.includeInDigest = FALSE]
    ELSE [doc EXCEPT !.channels.email.includeInDigest = FALSE]

\* Step 7 of send: immediate email, digest deferral, or email off.
EmailStep(doc, emailAllowed, frequency, t) ==
    IF emailAllowed
    THEN IF frequency = "never" \/ doc.priority = "urgent"
         THEN [MarkChannelDelivered(doc, "email", t)
                 EXCEPT !.channels.email.includeInDigest = FALSE]
         ELSE [doc EXCEPT !.channels.email.includeInDigest = TRUE]
    ELSE [doc EXCEPT !.channels.email.includeInDigest = FALSE]

\* Whether step 7 calls markChannelDelivered('email'), which starts a save.
EmailImmediate(emailAllowed, frequency, priority) ==
    emailAllowed /\ (frequency = "never" \/ priority = "urgent")

\* ---------------------------------------------------------------- state
VARIABLES
    now,        \* the clock, in hours since the start of day 0
    prefs,      \* NotificationPreferences collection: user -> document
    notifs,     \* Notification collection: id -> document
    nextId,     \* id of the next dispatched event
    inflight,   \* dispatcher's in-memory documents awaiting the push fan-out
    scan,       \* the two cron jobs: position in processDaily/WeeklyDigests
    events,     \* per dispatched event: what send and the digests did with it
    probe,      \* the last direct call of a function and its result
    configured, \* PushNotificationService.configured: VAPID keys were present
    requests,   \* controller requests between their findOne and their save
    circuit,    \* one CircuitBreaker, its running calls and what it emitted
    accounts    \* User collection: user -> MFA fields

vars == <<now, prefs, notifs, nextId, inflight, scan, events, probe, configured,
         requests, circuit, accounts>>

\* new CircuitBreaker(serviceName): the fields the constructor sets, the
\* calls of execute that are awaiting their action (with and without a
\* fallback), Date.now() in milliseconds, the number of times an action was
\* invoked, what the last call emitted and returned, and what an observer
\* of the emitted events and of the outcomes has counted.
NewCircuit ==
    [state |-> "CLOSED", failureCount |-> 0, successCount |-> 0,
     lastFailureTime |-> NoTime, nextAttemptTime |-> NoTime,
     metrics |-> [totalRequests |-> 0, failedRequests |-> 0,
                  successfulRequests |-> 0, shortCircuitedRequests |-> 0],
     running |-> [withFallback |-> 0, bare |-> 0],
     clock |-> 0, invoked |-> 0,
     last |-> [call |-> "none", emitted |-> <<>>, result |-> "none"],
     observed |-> [streak |-> 0, counted |-> 0, openedAt |-> NoTime]]

IdleScan == [pc |-> "idle", queue |-> <<>>, batch |-> {}, sent |-> FALSE]
NoProbe == [op |-> "none"]

Init ==
    /\ now = 0
    /\ prefs = <<>>
    /\ notifs = <<>>
    /\ nextId = 1
    /\ inflight = <<>>
    /\ scan = [k \in Kinds |-> IdleScan]
    /\ events = <<>>
    /\ probe = NoProbe
    /\ configured = TRUE
    /\ requests = <<>>
    /\ circuit = NewCircuit
    /\ accounts = <<>>

Remove(f, x) == [y \in DOMAIN f \ {x} |-> f[y]]

RECURSIVE SetToSeq(_)
SetToSeq(S) ==
    IF S = {} THEN <<>>
    ELSE LET x == CHOOSE y \in S : TRUE IN <<x>> \o SetToSeq(S \ {x})

SeqToSet(q) == {q[i] : i \in 1..Len(q)}

\* ------------------------------------------------ NotificationDispatcher
\* What the observer records of one send call and of the digests after it.
EventRecord(r, outcome, emissions, fanouts, inserts, facts) ==
    [recipient |-> r, outcome |-> outcome, emissions |-> emissions,
     fanouts |-> fanouts, inserts |-> inserts, facts |-> facts,
     flips |-> 0, failed |-> FALSE, missed |-> FALSE]

\* The email case of a dispatch, from the preferences and the payload.
EmailCase(emailAllowed, frequency, priority) ==
    IF ~emailAllowed THEN "off"
    ELSE IF frequency = "never" \/ priority = "urgent" THEN "immediate"
    ELSE "deferred"

NoFacts ==
    [online |-> FALSE, inAppAllowed |-> FALSE, pushAllowed |-> FALSE,
     quiet |-> FALSE, priority |-> "normal", email |-> "none",
     type |-> "none", given |-> "none"]

\* send with the rejection of the final save swallowed.
SendOutcomeSwallow(valid, saveRes) == "returned"

\* send: `await notification.save(); return notification` inside try/catch
\* that rethrows.
SendOutcome(valid, saveRes) ==
    IF valid /\ saveRes = "ok" THEN "returned" ELSE "error"

\* NotificationDispatcher.send.  saveRes is what the store does with the
\* saves of this call: "prefFail" (findOne/create of the preferences
\* rejects), "ok", "fail" (every save rejects), "earlyOnly" (the save
\* started by markChannelDelivered lands, the awaited one rejects).
Send(r, type, cat, prio, online, saveRes) ==
    /\ nextId' = nextId + 1
    /\ UNCHANGED <<configured, circuit, accounts, requests, now, scan, probe>>
    /\ IF saveRes = "prefFail"
       THEN /\ events' = events @@ (nextId :> EventRecord(r, "error", 0, 0, 0, NoFacts))
            /\ UNCHANGED <<configured, circuit, accounts, requests, prefs, notifs, inflight>>
       ELSE LET p == Hydrate(IF r \in DOMAIN prefs THEN prefs[r] ELSE DefaultPrefs)
                category == IF cat # "none" THEN cat ELSE InferCategory(type)
                priority == IF prio # "none" THEN prio ELSE "normal"
                inAppAllowed == ShouldSend(p, "inApp", category)
                pushAllowed == ShouldSend(p, "push", category)
                emailAllowed == ShouldSend(p, "email", category)
                quiet == IsInQuietHours(p, HourOf(now) * 60)
                push == PushGate(pushAllowed, quiet, priority)
                doc1 == InAppStep(NewNotification(r, type, category, priority),
                                  inAppAllowed, online, now)
                doc2 == EmailStep(doc1, emailAllowed, p.digest.frequency, now)
                early == (inAppAllowed /\ online)
                         \/ EmailImmediate(emailAllowed, p.digest.frequency, priority)
                persisted == Valid(doc2)
                             /\ (saveRes = "ok" \/ (saveRes = "earlyOnly" /\ early))
                saved == [doc2 EXCEPT !.createdAt = now]
                facts == [online |-> online, inAppAllowed |-> inAppAllowed,
                          pushAllowed |-> pushAllowed, quiet |-> quiet,
                          priority |-> priority,
                          email |-> EmailCase(emailAllowed, p.digest.frequency,
                                              priority),
                          type |-> type, given |-> cat]
            IN /\ prefs' = IF r \in DOMAIN prefs THEN prefs
                           ELSE prefs @@ (r :> DefaultPrefs)
               /\ notifs' = IF persisted THEN notifs @@ (nextId :> saved) ELSE notifs
               /\ inflight' =
                    IF push
                    THEN inflight @@ (nextId :>
                            [doc |-> IF persisted THEN saved ELSE doc2,
                             isNew |-> ~persisted,
                             subs |-> p.pushSubscriptions,
                             user |-> r])
                    ELSE inflight
               /\ events' = events @@ (nextId :>
                    EventRecord(r, SendOutcome(Valid(doc2), saveRes),
                                IF inAppAllowed /\ online THEN 1 ELSE 0,
                                IF push THEN 1 ELSE 0,
                                IF persisted THEN 1 ELSE 0, facts))

\* sendToUser giving up at the first endpoint that fails.
AttemptsUntilFailure(conf, subs, answers) ==
    IF ~conf THEN <<>>
    ELSE IF \A i \in 1..Len(subs) : answers[subs[i]] = "ok" THEN subs
    ELSE SubSeq(subs, 1, CHOOSE i \in 1..Len(subs) :
                            /\ answers[subs[i]] # "ok"
                            /\ \A j \in 1..(i - 1) : answers[subs[j]] = "ok")

\* sendToUser: the endpoints webpush.sendNotification is called for, in
\* order.  answers gives each endpoint's answer: "ok", "gone" (HTTP 404 or
\* 410) or "error" (any other failure).
Attempts(conf, subs, answers) == IF conf THEN subs ELSE <<>>

\* sendToUser with every failed endpoint queued for pruning.
InvalidEndpointsAnyFailure(conf, subs, answers) ==
    {e \in SeqToSet(Attempts(conf, subs, answers)) : answers[e] # "ok"}

\* sendToUser: the endpoints queued for pruning.
InvalidEndpoints(conf, subs, answers) ==
    {e \in SeqToSet(Attempts(conf, subs, answers)) : answers[e] = "gone"}

\* sendToUser: the returned object.
SendToUserResult(conf, subs, answers) ==
    IF ~conf THEN [success |-> FALSE, error |-> "Not configured"]
    ELSE LET tried == Attempts(conf, subs, answers)
             successCount == Cardinality({i \in 1..Len(tried) :
                                            answers[tried[i]] = "ok"})
         IN [success |-> successCount > 0, deliveredTo |-> successCount,
             total |-> Len(subs)]

\* removeInvalidSubscriptions: $pull of the endpoints from the stored set.
RemoveInvalidSubscriptions(store, userId, endpoints) ==
    IF userId \in DOMAIN store
    THEN [store EXCEPT ![userId].pushSubscriptions =
            SelectSeq(@, LAMBDA e : e \notin endpoints)]
    ELSE store

\* save() of a loaded document writing the whole in-memory document.
SaveWholeDocument(stored, before, after) == after

\* save() of a loaded document after markChannelDelivered('push'): the
\* update holds only the paths the call modified, the push channel and,
\* when the call changed it, the status.
SaveModifiedPaths(stored, before, after) ==
    [stored EXCEPT !.channels.push = after.channels.push,
                   !.status = IF after.status # before.status
                              THEN after.status ELSE @]

\* save() of a loaded document writing the document back under its id
\* whether or not the record is still stored.
SaveExistingUpsert(store, id, before, after) ==
    IF id \in DOMAIN store
    THEN [store EXCEPT ![id] = SaveModifiedPaths(@, before, after)]
    ELSE store @@ (id :> after)

\* save() of a loaded document: an update filtered by _id, which writes
\* nothing when the record is no longer stored.
SaveExisting(store, id, before, after) ==
    IF id \in DOMAIN store
    THEN [store EXCEPT ![id] = SaveModifiedPaths(@, before, after)]
    ELSE store

\* The completion of the fan-out started by send: sendPush -> sendToUser ->
\* removeInvalidSubscriptions, then markChannelDelivered('push') on the
\* dispatcher's in-memory document.  result gives each endpoint's answer:
\* "ok", "gone" (404 / 410) or "error"; saveOk whether the save lands.
PushCompletion(id, result, saveOk) ==
    /\ id \in DOMAIN inflight
    /\ LET f == inflight[id]
           endpoints == SeqToSet(f.subs)
       IN /\ result \in [endpoints -> {"ok", "gone", "error"}]
          /\ LET invalidEndpoints == InvalidEndpoints(configured, f.subs, result)
                 success == SendToUserResult(configured, f.subs, result).success
                 doc == MarkChannelDelivered(f.doc, "push", now)
             IN /\ prefs' = RemoveInvalidSubscriptions(prefs, f.user, invalidEndpoints)
                /\ notifs' =
                     IF ~(success /\ saveOk) THEN notifs
                     ELSE IF f.isNew
                          THEN IF Valid(doc) /\ id \notin DOMAIN notifs
                               THEN notifs @@ (id :> [doc EXCEPT !.createdAt = now])
                               ELSE notifs
                          ELSE SaveExisting(notifs, id, f.doc, doc)
                /\ events' =
                     IF success /\ saveOk /\ f.isNew /\ Valid(doc) /\ id \notin DOMAIN notifs
                     THEN [events EXCEPT ![id].inserts = @ + 1]
                     ELSE events
    /\ inflight' = Remove(inflight, id)
    /\ UNCHANGED <<configured, circuit, accounts, requests, now, nextId, scan>>

PushComplete(id, result, saveOk) ==
    PushCompletion(id, result, saveOk) /\ UNCHANGED probe

\* The same completion with the result of sendToUser kept: whether any
\* endpoint accepted the push.
PushCompleteCall(id, result, saveOk) ==
    /\ PushCompletion(id, result, saveOk)
    /\ probe' = [op |-> "pushComplete", id |-> id,
                 success |-> SendToUserResult(configured, inflight[id].subs,
                                              result).success]

\* ------------------------------------------------------- DigestScheduler
\* getDigestNotifications without the delivered test.
GetDigestNotificationsAnyDelivered(userId, since) ==
    {n \in DOMAIN notifs :
        /\ notifs[n].recipient = userId
        /\ notifs[n].channels.email.includeInDigest
        /\ notifs[n].createdAt >= since}

\* notificationSchema.statics.getDigestNotifications
GetDigestNotifications(userId, since) ==
    {n \in DOMAIN notifs :
        /\ notifs[n].recipient = userId
        /\ notifs[n].channels.email.includeInDigest
        /\ ~notifs[n].channels.email.delivered
        /\ notifs[n].createdAt >= since}

\* The scans' find() with the weekday test of the weekly scan dropped.
MatchesAnyWeekday(kind, t) ==
    {u \in DOMAIN prefs :
        /\ prefs[u].digest.frequency = kind
        /\ prefs[u].digest.time[1] = HourOf(t)}

\* The preference documents a scan's find() matches at time t.
Matches(kind, t) ==
    {u \in DOMAIN prefs :
        /\ prefs[u].digest.frequency = kind
        /\ prefs[u].digest.time[1] = HourOf(t)
        /\ (kind = "weekly" => prefs[u].digest.dayOfWeek = WeekdayOf(t))}

Limit(q, n) == IF Len(q) <= n THEN q ELSE SubSeq(q, 1, n)

StartScan(kind, t) ==
    LET queue == Limit(SetToSeq(Matches(kind, t)), batchSize)
    IN [pc |-> IF queue = <<>> THEN "idle" ELSE "fetch", queue |-> queue,
        batch |-> {}, sent |-> FALSE]

\* The loop of processDaily/WeeklyDigests moves to the next matched user.
NextUser(s) ==
    [pc |-> IF Len(s.queue) > 1 THEN "fetch" ELSE "idle",
     queue |-> Tail(s.queue), batch |-> {}, sent |-> FALSE]

\* A rejection inside sendDigestForUser reaching the try/catch of
\* processDaily/WeeklyDigests, which ends the loop.
AbortScan(s) == IdleScan

\* The catch block of sendDigestForUser: the error is logged, the call
\* returns, and the loop of the scan goes on with the next matched user.
AfterFailure(s) == NextUser(s)

\* sendDigestForUser with `since` left at the time of the tick.
LookbackHoursNone(kind) == 0

LookbackHours(kind) ==
    IF kind = "daily" THEN DailyLookbackDays * HoursPerDay
    ELSE WeeklyLookbackDays * HoursPerDay

\* The cron tick at the next full hour: processDailyDigests and
\* processWeeklyDigests both start and run their find().  The previous
\* tick's scans have finished by then.
Tick ==
    /\ \A k \in Kinds : scan[k].pc = "idle"
    /\ now' = NextTickTime(now)
    /\ scan' = [k \in Kinds |-> StartScan(k, NextTickTime(now))]
    /\ UNCHANGED <<configured, circuit, accounts, requests, prefs, notifs, nextId, inflight, events, probe>>

\* sendDigestForUser up to the await of getDigestNotifications.
DigestFetch(k, fetchOk) ==
    /\ scan[k].pc = "fetch"
    /\ LET user == Head(scan[k].queue)
           since == now - LookbackHours(k)
           batch == GetDigestNotifications(user, since)
       IN IF user \notin UsersWithEmail \/ ~fetchOk
          THEN /\ scan' = [scan EXCEPT ![k] =
                             IF user \notin UsersWithEmail THEN NextUser(@)
                             ELSE AfterFailure(@)]
               /\ UNCHANGED events
          ELSE /\ scan' = [scan EXCEPT ![k] =
                             IF batch = {} THEN NextUser(@)
                             ELSE [@ EXCEPT !.pc = "send", !.batch = batch]]
               /\ events' = [n \in DOMAIN events |->
                    IF n \in batch THEN [events[n] EXCEPT !.failed = FALSE]
                    ELSE IF n \in DOMAIN notifs /\ notifs[n].recipient = user
                            /\ events[n].failed
                         THEN [events[n] EXCEPT !.missed = TRUE]
                         ELSE events[n]]
    /\ UNCHANGED <<configured, circuit, accounts, requests, now, prefs, notifs, nextId, inflight, probe>>

\* Step of sendDigestForUser with the flag flip after any send.
AfterSendAlwaysFlag(s, sent) == [s EXCEPT !.pc = "flag", !.sent = sent]

\* sendDigestForUser: `if (sent)` decides whether the flags are flipped.
AfterSend(s, sent) ==
    IF sent THEN [s EXCEPT !.pc = "flag", !.sent = sent] ELSE NextUser(s)

\* EmailDigestService.sendDigest: render and hand to the email transport;
\* sent is false when rendering or the transport throws.
DigestSend(k, sent) ==
    /\ scan[k].pc = "send"
    /\ scan' = [scan EXCEPT ![k] = AfterSend(@, sent)]
    /\ events' = [n \in DOMAIN events |->
            IF n \in scan[k].batch /\ ~sent
            THEN [events[n] EXCEPT !.failed = TRUE]
            ELSE events[n]]
    /\ UNCHANGED <<configured, circuit, accounts, requests, now, prefs, notifs, nextId, inflight, probe>>

\* Notification.updateMany({_id: {$in: ids}}, ...): the records it matches.
FlagTargets(ids) == ids \cap DOMAIN notifs

\* sendDigestForUser: the updateMany after a successful send.
DigestFlag(k, flagOk) ==
    /\ scan[k].pc = "flag"
    /\ LET targets == IF flagOk THEN FlagTargets(scan[k].batch) ELSE {}
       IN /\ notifs' = [n \in DOMAIN notifs |->
                 IF n \in targets
                 THEN [notifs[n] EXCEPT !.channels.email.delivered = TRUE,
                                        !.channels.email.deliveredAt = now]
                 ELSE notifs[n]]
          /\ events' = [n \in DOMAIN events |->
                 IF n \in targets THEN [events[n] EXCEPT !.flips = @ + 1]
                 ELSE events[n]]
    /\ scan' = [scan EXCEPT ![k] = IF flagOk THEN NextUser(@) ELSE AfterFailure(@)]
    /\ UNCHANGED <<configured, circuit, accounts, requests, now, prefs, nextId, inflight, probe>>

\* ------------------------------------------------ notificationController
\* PUT /api/notifications/:id/read
MarkRead(userId, id) ==
    /\ id \in DOMAIN notifs
    /\ notifs[id].recipient = userId
    /\ notifs' = [notifs EXCEPT ![id] = MarkAsRead(@, now)]
    /\ UNCHANGED <<configured, circuit, accounts, requests, now, prefs, nextId, inflight, scan, events, probe>>

\* PUT /api/notifications/:id/click
TrackClick(userId, id) ==
    /\ id \in DOMAIN notifs
    /\ notifs[id].recipient = userId
    /\ notifs' = [notifs EXCEPT ![id] = MarkAsClicked(@, now)]
    /\ UNCHANGED <<configured, circuit, accounts, requests, now, prefs, nextId, inflight, scan, events, probe>>

\* markAllRead's query with the category test dropped.
MarkAllReadQueryAnyCategory(doc, userId, category) ==
    doc.recipient = userId /\ ~doc.read

\* Notification.markAllRead: the query of its updateMany; category "none"
\* is a call without a category.
MarkAllReadQuery(doc, userId, category) ==
    /\ doc.recipient = userId
    /\ ~doc.read
    /\ (category # "none" => doc.category = category)

\* PUT /api/notifications/read-all -> Notification.markAllRead
MarkAllRead(userId, category) ==
    /\ notifs' = [n \in DOMAIN notifs |->
            IF MarkAllReadQuery(notifs[n], userId, category)
            THEN [notifs[n] EXCEPT !.read = TRUE, !.readAt = now, !.status = "read"]
            ELSE notifs[n]]
    /\ probe' = [op |-> "markAllRead", user |-> userId, category |-> category]
    /\ UNCHANGED <<configured, circuit, accounts, requests, now, prefs, nextId, inflight, scan, events>>

\* DELETE /api/notifications/:id
DeleteNotification(userId, id) ==
    /\ id \in DOMAIN notifs
    /\ notifs[id].recipient = userId
    /\ notifs' = Remove(notifs, id)
    /\ UNCHANGED <<configured, circuit, accounts, requests, now, prefs, nextId, inflight, scan, events, probe>>

\* Object.assign(target, source) on one section of the preferences.
Assign(target, source) ==
    [k \in DOMAIN target \cup DOMAIN source |->
        IF k \in DOMAIN source THEN source[k] ELSE target[k]]

\* A category object as stored: the switches it does not name are absent.
CategoryEntry(given) ==
    [ch \in CatChannels |->
        IF ch \in DOMAIN given THEN (IF given[ch] THEN "on" ELSE "off") ELSE "unset"]

\* updatePreferences: the four Object.assign calls on the sections of the
\* loaded (or new) document.  Each assigns the top-level keys of its
\* section, so a named channel or category object is replaced as a whole.
MergePreferences(p, updates) ==
    [p EXCEPT
        !.channels = Assign(@, updates.channels),
        !.categories = Assign(@, [c \in DOMAIN updates.categories |->
                                    CategoryEntry(updates.categories[c])]),
        !.digest = Assign(@, updates.digest),
        !.quietHours = Assign(@, updates.quietHours)]

\* PUT /api/notifications/preferences
UpdatePreferences(userId, updates) ==
    /\ LET p == IF userId \in DOMAIN prefs THEN prefs[userId] ELSE DefaultPrefs
           merged == MergePreferences(p, updates)
       IN prefs' = [u \in DOMAIN prefs \cup {userId} |->
                       IF u = userId THEN merged ELSE prefs[u]]
    /\ UNCHANGED <<configured, circuit, accounts, requests, now, notifs, nextId, inflight, scan, events, probe>>

\* PUT /api/notifications/preferences, with the request kept for inspection.
UpdatePreferencesCall(userId, updates) ==
    /\ LET p == IF userId \in DOMAIN prefs THEN prefs[userId] ELSE DefaultPrefs
       IN prefs' = [u \in DOMAIN prefs \cup {userId} |->
                       IF u = userId THEN MergePreferences(p, updates) ELSE prefs[u]]
    /\ probe' = [op |-> "updatePreferences", user |-> userId, updates |-> updates]
    /\ UNCHANGED <<configured, circuit, accounts, requests, now, notifs, nextId, inflight, scan, events>>

\* POST /api/notifications/push/subscribe
SubscribePush(userId, endpoint) ==
    /\ prefs' =
         IF userId \notin DOMAIN prefs
         THEN prefs @@ (userId :> [DefaultPrefs EXCEPT !.pushSubscriptions = <<endpoint>>])
         ELSE IF endpoint \in SeqToSet(prefs[userId].pushSubscriptions) THEN prefs
         ELSE [prefs EXCEPT ![userId].pushSubscriptions = Append(@, endpoint)]
    /\ UNCHANGED <<configured, circuit, accounts, requests, now, notifs, nextId, inflight, scan, events, probe>>

\* POST /api/notifications/push/unsubscribe
UnsubscribePush(userId, endpoint) ==
    /\ prefs' =
         IF userId \in DOMAIN prefs
         THEN [prefs EXCEPT ![userId].pushSubscriptions =
                 SelectSeq(@, LAMBDA e : e # endpoint)]
         ELSE prefs
    /\ UNCHANGED <<configured, circuit, accounts, requests, now, notifs, nextId, inflight, scan, events, probe>>

\* ---------------------------------- the same handlers, await by await
\* A controller request is kept in requests from its findOne to its save:
\* doc is its in-memory document, found whether findOne returned one, pc
\* "save" while the save is outstanding, then "ok" or "error"; after is a
\* record of the requests that had completed when this one did.
Completed == {r \in DOMAIN requests : requests[r].pc # "save"}

\* An insert into a collection without the unique index.
InsertNeverRejected(store, userId) == FALSE

\* The unique index on NotificationPreferences.user: the insert of a second
\* document for a user is rejected with a duplicate-key error.
InsertRejected(store, userId) == userId \in DOMAIN store

\* The get-or-create at the start of getPreferences (op "getPreferences")
\* and of send (op "send"), up to the await of create(); when findOne
\* returns a document there is nothing to create.
BeginGetOrCreate(rid, op, userId) ==
    /\ rid \notin DOMAIN requests
    /\ LET found == userId \in DOMAIN prefs
       IN requests' = requests @@ (rid :>
            [op |-> op, user |-> userId, arg |-> <<>>, found |-> found,
             doc |-> IF found THEN prefs[userId] ELSE DefaultPrefs,
             pc |-> IF found THEN "ok" ELSE "save",
             after |-> IF found THEN Completed ELSE {}])
    /\ UNCHANGED <<configured, circuit, accounts, now, prefs, notifs, nextId, inflight, scan, events, probe>>

\* The create() of the get-or-create lands or is rejected; a rejection
\* makes getPreferences answer 500 and send throw.
SaveGetOrCreate(rid) ==
    /\ rid \in DOMAIN requests
    /\ requests[rid].op \in {"getPreferences", "send"}
    /\ requests[rid].pc = "save"
    /\ LET r == requests[rid]
           duplicate == InsertRejected(prefs, r.user)
       IN /\ prefs' = IF duplicate THEN prefs ELSE prefs @@ (r.user :> r.doc)
          /\ requests' = [requests EXCEPT
                            ![rid].pc = IF duplicate THEN "error" ELSE "ok",
                            ![rid].after = Completed]
    /\ UNCHANGED <<configured, circuit, accounts, now, notifs, nextId, inflight, scan, events, probe>>

\* save() of a loaded preferences document writing the whole in-memory
\* document.
SavePreferencesWhole(stored, mem, updates) == mem

\* save() after the merges of updatePreferences: a $set of the paths the
\* Object.assign calls assigned.
SaveMergedPaths(stored, mem, updates) ==
    [stored EXCEPT
        !.channels = Assign(@, [ch \in DOMAIN updates.channels |-> mem.channels[ch]]),
        !.categories = Assign(@, [c \in DOMAIN updates.categories |->
                                    mem.categories[c]]),
        !.digest = Assign(@, [n \in DOMAIN updates.digest |-> mem.digest[n]]),
        !.quietHours = Assign(@, [n \in DOMAIN updates.quietHours |->
                                    mem.quietHours[n]])]

\* updatePreferences up to the await of save().
BeginUpdatePreferences(rid, userId, updates) ==
    /\ rid \notin DOMAIN requests
    /\ LET found == userId \in DOMAIN prefs
           p == IF found THEN prefs[userId] ELSE DefaultPrefs
       IN requests' = requests @@ (rid :>
            [op |-> "updatePreferences", user |-> userId, arg |-> updates,
             found |-> found, doc |-> MergePreferences(p, updates),
             pc |-> "save", after |-> {}])
    /\ UNCHANGED <<configured, circuit, accounts, now, prefs, notifs, nextId, inflight, scan, events, probe>>

\* updatePreferences: the save lands.  A new document is inserted, which
\* the unique index on user rejects when one exists by now.
SaveUpdatePreferences(rid) ==
    /\ rid \in DOMAIN requests
    /\ requests[rid].op = "updatePreferences"
    /\ requests[rid].pc = "save"
    /\ LET r == requests[rid]
           duplicate == ~r.found /\ InsertRejected(prefs, r.user)
       IN /\ prefs' = IF r.found
                      THEN [prefs EXCEPT ![r.user] = SaveMergedPaths(@, r.doc, r.arg)]
                      ELSE IF duplicate THEN prefs
                      ELSE prefs @@ (r.user :> r.doc)
          /\ requests' = [requests EXCEPT
                            ![rid].pc = IF duplicate THEN "error" ELSE "ok",
                            ![rid].after = Completed]
    /\ UNCHANGED <<configured, circuit, accounts, now, notifs, nextId, inflight, scan, events, probe>>

\* save() after pushSubscriptions.push(subscription) with the array written
\* as the request holds it.
SavePushedArray(stored, mem, endpoint) ==
    [stored EXCEPT !.pushSubscriptions = mem.pushSubscriptions]

\* save() after pushSubscriptions.push(subscription): a $push of the new
\* element onto the stored array.
SavePushedElement(stored, mem, endpoint) ==
    [stored EXCEPT !.pushSubscriptions = Append(@, endpoint)]

\* subscribePush up to its await of create() or save(); when the loaded
\* document already holds the endpoint the request answers at once.
BeginSubscribePush(rid, userId, endpoint) ==
    /\ rid \notin DOMAIN requests
    /\ LET found == userId \in DOMAIN prefs
           exists == found /\ endpoint \in SeqToSet(prefs[userId].pushSubscriptions)
           doc == IF found
                  THEN IF exists THEN prefs[userId]
                       ELSE [prefs[userId] EXCEPT
                               !.pushSubscriptions = Append(@, endpoint)]
                  ELSE [DefaultPrefs EXCEPT !.pushSubscriptions = <<endpoint>>]
       IN requests' = requests @@ (rid :>
            [op |-> "subscribePush", user |-> userId, arg |-> endpoint,
             found |-> found, doc |-> doc,
             pc |-> IF exists THEN "ok" ELSE "save",
             after |-> IF exists THEN Completed ELSE {}])
    /\ UNCHANGED <<configured, circuit, accounts, now, prefs, notifs, nextId, inflight, scan, events, probe>>

\* subscribePush: the create() or save() lands.
SaveSubscribePush(rid) ==
    /\ rid \in DOMAIN requests
    /\ requests[rid].op = "subscribePush"
    /\ requests[rid].pc = "save"
    /\ LET r == requests[rid]
           duplicate == ~r.found /\ InsertRejected(prefs, r.user)
       IN /\ prefs' = IF r.found
                      THEN [prefs EXCEPT ![r.user] = SavePushedElement(@, r.doc, r.arg)]
                      ELSE IF duplicate THEN prefs
                      ELSE prefs @@ (r.user :> r.doc)
          /\ requests' = [requests EXCEPT
                            ![rid].pc = IF duplicate THEN "error" ELSE "ok",
                            ![rid].after = Completed]
    /\ UNCHANGED <<configured, circuit, accounts, now, notifs, nextId, inflight, scan, events, probe>>

\* unsubscribePush as one request: a single updateOne with $pull.
UnsubscribePushCall(rid, userId, endpoint) ==
    /\ rid \notin DOMAIN requests
    /\ prefs' = RemoveInvalidSubscriptions(prefs, userId, {endpoint})
    /\ requests' = requests @@ (rid :>
            [op |-> "unsubscribePush", user |-> userId, arg |-> endpoint,
             found |-> userId \in DOMAIN prefs, doc |-> <<>>,
             pc |-> "ok", after |-> Completed])
    /\ UNCHANGED <<configured, circuit, accounts, now, notifs, nextId, inflight, scan, events, probe>>

\* removeInvalidSubscriptions after a fan-out that found the endpoints
\* gone: a single updateOne with $pull.
PruneCall(rid, userId, endpoints) ==
    /\ rid \notin DOMAIN requests
    /\ prefs' = RemoveInvalidSubscriptions(prefs, userId, endpoints)
    /\ requests' = requests @@ (rid :>
            [op |-> "removeInvalidSubscriptions", user |-> userId,
             arg |-> endpoints, found |-> userId \in DOMAIN prefs, doc |-> <<>>,
             pc |-> "ok", after |-> Completed])
    /\ UNCHANGED <<configured, circuit, accounts, now, notifs, nextId, inflight, scan, events, probe>>

\* Notification.findOne({_id: id, recipient: userId}) returned a record.
FindOwned(store, id, userId) ==
    id \in DOMAIN store /\ store[id].recipient = userId

\* The answers of markRead and of trackClick: the HTTP status.
MarkReadResponse(found) == IF found THEN "200" ELSE "404"
TrackClickResponse(found) == "200"

\* PUT /api/notifications/:id/read for any id, with the answer kept.
MarkReadCall(userId, id) ==
    /\ notifs' = IF FindOwned(notifs, id, userId)
                 THEN [notifs EXCEPT ![id] = MarkAsRead(@, now)]
                 ELSE notifs
    /\ probe' = [op |-> "markRead", user |-> userId, id |-> id,
                 status |-> MarkReadResponse(FindOwned(notifs, id, userId))]
    /\ UNCHANGED <<configured, circuit, accounts, requests, now, prefs, nextId, inflight, scan, events>>

\* PUT /api/notifications/:id/click for any id, with the answer kept.
TrackClickCall(userId, id) ==
    /\ notifs' = IF FindOwned(notifs, id, userId)
                 THEN [notifs EXCEPT ![id] = MarkAsClicked(@, now)]
                 ELSE notifs
    /\ probe' = [op |-> "trackClick", user |-> userId, id |-> id,
                 status |-> TrackClickResponse(FindOwned(notifs, id, userId))]
    /\ UNCHANGED <<configured, circuit, accounts, requests, now, prefs, nextId, inflight, scan, events>>

\* DELETE /api/notifications/:id for any id: deleteOne({_id, recipient}).
DeleteNotificationCall(userId, id) ==
    /\ notifs' = IF FindOwned(notifs, id, userId) THEN Remove(notifs, id) ELSE notifs
    /\ probe' = [op |-> "deleteNotification", user |-> userId, id |-> id,
                 status |-> "200"]
    /\ UNCHANGED <<configured, circuit, accounts, requests, now, prefs, nextId, inflight, scan, events>>

\* The $or of getUnread and getAll: expiresAt is absent or later than t.
NotExpired(doc, t) ==
    "expiresAt" \notin DOMAIN doc \/ doc.expiresAt > t

\* notificationSchema.statics.getAll without options.category: the ids
\* matched, before sort, skip and limit.
GetAll(userId, t) ==
    {n \in DOMAIN notifs : notifs[n].recipient = userId /\ NotExpired(notifs[n], t)}

\* notificationSchema.statics.getUnread without types and category.
GetUnread(userId, t) ==
    {n \in DOMAIN notifs :
        /\ notifs[n].recipient = userId
        /\ ~notifs[n].read
        /\ NotExpired(notifs[n], t)}

\* notificationSchema.statics.getUnreadCount without category:
\* countDocuments({recipient, read: false}).
GetUnreadCount(userId) ==
    Cardinality({n \in DOMAIN notifs :
                    notifs[n].recipient = userId /\ ~notifs[n].read})

\* GET /api/notifications with the default limit and skip; the answer is
\* kept with the time of the request.
GetNotificationsCall(userId) ==
    /\ probe' = [op |-> "getNotifications", user |-> userId, at |-> now,
                 notifications |-> Limit(SetToSeq(GetAll(userId, now)), defaultLimit),
                 unreadCount |-> GetUnreadCount(userId)]
    /\ UNCHANGED <<configured, circuit, accounts, requests, now, prefs, notifs, nextId, inflight, scan,
                   events>>

\* Notification.getUnread(userId) with the default limit.
GetUnreadCall(userId) ==
    /\ probe' = [op |-> "getUnread", user |-> userId, at |-> now,
                 notifications |-> Limit(SetToSeq(GetUnread(userId, now)),
                                         defaultUnreadLimit)]
    /\ UNCHANGED <<configured, circuit, accounts, requests, now, prefs, notifs, nextId, inflight, scan,
                   events>>

\* shouldSend called on a preference document.
ProbeShouldSend(userId, channel, category) ==
    /\ userId \in DOMAIN prefs
    /\ probe' = [op |-> "shouldSend", user |-> userId, channel |-> channel,
                 category |-> category,
                 result |-> ShouldSend(prefs[userId], channel, category)]
    /\ UNCHANGED <<configured, circuit, accounts, requests, now, prefs, notifs, nextId, inflight, scan, events>>

\* send, steps 1 and 3: the preferences are loaded (or created with the
\* defaults) and shouldSend is asked on the loaded document.
ProbeLoaded(userId, channel, category) ==
    /\ LET p == Hydrate(IF userId \in DOMAIN prefs THEN prefs[userId]
                        ELSE DefaultPrefs)
       IN probe' = [op |-> "loaded", user |-> userId, channel |-> channel,
                    category |-> category,
                    result |-> ShouldSend(p, channel, category)]
    /\ prefs' = IF userId \in DOMAIN prefs THEN prefs
                ELSE prefs @@ (userId :> DefaultPrefs)
    /\ UNCHANGED <<configured, circuit, accounts, requests, now, notifs, nextId, inflight, scan, events>>

\* isInQuietHours called on a preference document when the UTC clock
\* shows clock = <<hour, minute>>.
ProbeQuietHours(userId, clock) ==
    /\ userId \in DOMAIN prefs
    /\ probe' = [op |-> "isInQuietHours", user |-> userId, clock |-> clock,
                 result |-> IsInQuietHours(prefs[userId], Minutes(clock))]
    /\ UNCHANGED <<configured, circuit, accounts, requests, now, prefs, notifs, nextId, inflight, scan, events>>

\* sendToUser called with the user's stored preference document.  answers
\* gives each endpoint's answer, pruneOk whether the store accepts the
\* update of removeInvalidSubscriptions (its rejection is caught and logged).
SendToUserCall(userId, answers, pruneOk) ==
    /\ userId \in DOMAIN prefs
    /\ LET subs == prefs[userId].pushSubscriptions
           invalidEndpoints == InvalidEndpoints(configured, subs, answers)
       IN /\ answers \in [SeqToSet(subs) -> {"ok", "gone", "error"}]
          /\ probe' = [op |-> "sendToUser", user |-> userId, subs |-> subs,
                       answers |-> answers,
                       attempts |-> Attempts(configured, subs, answers),
                       result |-> SendToUserResult(configured, subs, answers),
                       pruned |-> pruneOk /\ invalidEndpoints # {}]
          /\ prefs' = IF pruneOk
                      THEN RemoveInvalidSubscriptions(prefs, userId, invalidEndpoints)
                      ELSE prefs
    /\ UNCHANGED <<configured, circuit, accounts, requests, now, notifs, nextId, inflight, scan, events>>

\* --------------------------------------------------------- CircuitBreaker
Emit(c, event) == [c EXCEPT !.last.emitted = Append(@, event)]

\* _transitionToOpen at time t.
TransitionToOpen(c, t) ==
    Emit([c EXCEPT !.state = "OPEN", !.nextAttemptTime = t + cooldownPeriod],
         "open")

\* _transitionToHalfOpen
TransitionToHalfOpen(c) ==
    Emit([c EXCEPT !.state = "HALF_OPEN", !.successCount = 0], "half_open")

\* _transitionToClosed
TransitionToClosed(c) ==
    Emit([c EXCEPT !.state = "CLOSED", !.failureCount = 0, !.successCount = 0],
         "closed")

\* The permission check without the cooldown test.
CooldownIgnored(c, t) == TRUE

\* _canRequestProceed: `Date.now() > this.nextAttemptTime`.
CooldownOver(c, t) == t > c.nextAttemptTime

\* _canRequestProceed: the answer.
CanRequestProceed(c, t) ==
    IF c.state = "CLOSED" THEN TRUE
    ELSE IF c.state = "OPEN" THEN CooldownOver(c, t)
    ELSE c.state = "HALF_OPEN"

\* _canRequestProceed: the breaker after the call.
AfterPermission(c, t) ==
    IF c.state = "OPEN" /\ CooldownOver(c, t) THEN TransitionToHalfOpen(c) ELSE c

\* _handleFailure with the circuit opening one failure late.
HandleFailureLate(c, t) ==
    LET c1 == [c EXCEPT !.failureCount = @ + 1,
                        !.metrics.failedRequests = @ + 1,
                        !.lastFailureTime = t]
        c2 == IF c1.state = "HALF_OPEN" \/ c1.failureCount > failureThreshold
              THEN TransitionToOpen(c1, t) ELSE c1
    IN Emit(c2, "failure")

\* _handleFailure at time t.
HandleFailure(c, t) ==
    LET c1 == [c EXCEPT !.failureCount = @ + 1,
                        !.metrics.failedRequests = @ + 1,
                        !.lastFailureTime = t]
        c2 == IF c1.state = "HALF_OPEN" \/ c1.failureCount >= failureThreshold
              THEN TransitionToOpen(c1, t) ELSE c1
    IN Emit(c2, "failure")

\* _handleSuccess with the circuit closing on the first counted success.
HandleSuccessFirst(c) ==
    LET c1 == [c EXCEPT !.metrics.successfulRequests = @ + 1]
        c2 == IF c1.state = "HALF_OPEN"
              THEN TransitionToClosed([c1 EXCEPT !.successCount = @ + 1])
              ELSE [c1 EXCEPT !.failureCount = 0]
    IN Emit(c2, "success")

\* _handleSuccess
HandleSuccess(c) ==
    LET c1 == [c EXCEPT !.metrics.successfulRequests = @ + 1]
        c2 == IF c1.state = "HALF_OPEN"
              THEN LET c3 == [c1 EXCEPT !.successCount = @ + 1]
                   IN IF c3.successCount >= successThreshold
                      THEN TransitionToClosed(c3) ELSE c3
              ELSE [c1 EXCEPT !.failureCount = 0]
    IN Emit(c2, "success")

\* What an observer of the emitted events and of the outcomes counts:
\* failures in a row, successes since 'half_open', the time of 'open'.
Observe(c, before) ==
    LET seen == SeqToSet(c.last.emitted)
        o == before.observed
    IN [c EXCEPT !.observed =
          [streak |-> IF "closed" \in seen \/ "success" \in seen THEN 0
                      ELSE IF "failure" \in seen THEN o.streak + 1
                      ELSE o.streak,
           counted |-> IF "half_open" \in seen THEN 0
                       ELSE IF "success" \in seen /\ before.state = "HALF_OPEN"
                            THEN o.counted + 1
                       ELSE o.counted,
           openedAt |-> IF "open" \in seen THEN c.clock ELSE o.openedAt]]

Started(c, call) ==
    [c EXCEPT !.last = [call |-> call, emitted |-> <<>>, result |-> "none"]]

\* execute(action, fallback) up to the await of the action, or to its end
\* when the request may not proceed.
Execute(fallback) ==
    /\ circuit.metrics.totalRequests < MaxCalls
    /\ LET c0 == [Started(circuit, "execute") EXCEPT !.metrics.totalRequests = @ + 1]
           t == circuit.clock
       IN circuit' =
            IF ~CanRequestProceed(c0, t)
            THEN Observe([c0 EXCEPT !.metrics.shortCircuitedRequests = @ + 1,
                            !.last.result = IF fallback THEN "fallback"
                                            ELSE "circuitOpenError"], circuit)
            ELSE Observe([AfterPermission(c0, t) EXCEPT
                            !.invoked = @ + 1,
                            !.running[IF fallback THEN "withFallback" ELSE "bare"]
                                = @ + 1], circuit)
    /\ UNCHANGED <<now, prefs, notifs, nextId, inflight, scan, events, probe,
                   configured, requests, accounts>>

\* execute(action, fallback) from the settling of _executeWithTimeout: ok
\* is false when the action rejected or the timeout fired first.
Settle(fallback, ok) ==
    /\ circuit.running[IF fallback THEN "withFallback" ELSE "bare"] > 0
    /\ LET c0 == [Started(circuit, "settle") EXCEPT
                    !.running[IF fallback THEN "withFallback" ELSE "bare"] = @ - 1]
           c1 == IF ok THEN HandleSuccess(c0) ELSE HandleFailure(c0, circuit.clock)
       IN circuit' = Observe([c1 EXCEPT !.last.result =
                                IF ok THEN "response"
                                ELSE IF fallback THEN "fallback" ELSE "error"],
                             circuit)
    /\ UNCHANGED <<now, prefs, notifs, nextId, inflight, scan, events, probe,
                   configured, requests, accounts>>

\* Date.now() moves on.
TimePasses ==
    /\ circuit.clock < MaxClock
    /\ circuit' = [Started(circuit, "none") EXCEPT !.clock = @ + ClockStep]
    /\ UNCHANGED <<now, prefs, notifs, nextId, inflight, scan, events, probe,
                   configured, requests, accounts>>

\* ------------------------------------------------------------- MFAService
\* A User document's MFA fields before MFA is enabled.
NoMFA == [twoFactorEnabled |-> FALSE, twoFactorSecret |-> "none",
          backupCodes |-> <<>>]

Secrets == {"JBSWY3DP"}

\* The one-time password otplib accepts for a secret at the moment of the call.
CurrentOtp(secret) == "otp:" \o secret

\* The values crypto.randomBytes(4) can produce, two of them.
BackupCodes == {"A1B2C3D4", "0F9E8D7C"}

\* What a login can present: the current password, a wrong one, a code.
Tokens == {CurrentOtp(secret) : secret \in Secrets} \cup {"000000"} \cup BackupCodes

\* verifyToken(token, secret)
VerifyToken(token, secret) == token = CurrentOtp(secret)

\* generateBackupCodes(count): the lists it can return.
GenerateBackupCodes(count) == [1..count -> BackupCodes]

\* User.findByIdAndUpdate(id, {$pull: {backupCodes: token}})
PullBackupCode(store, userId, token) ==
    IF userId \notin DOMAIN store THEN store
    ELSE [store EXCEPT ![userId].backupCodes =
                          SelectSeq(@, LAMBDA code : code # token)]

\* enableMFA(userId, secret, token), for a user who enrols once.
EnableMFA(userId, secret, token, codes) ==
    /\ userId \in DOMAIN accounts
    /\ ~accounts[userId].twoFactorEnabled
    /\ VerifyToken(token, secret)
    /\ accounts' = [accounts EXCEPT ![userId] =
                      [twoFactorEnabled |-> TRUE, twoFactorSecret |-> secret,
                       backupCodes |-> codes]]
    /\ UNCHANGED <<configured, circuit, now, prefs, notifs, nextId, inflight,
                   scan, events, probe, requests>>

Authenticated == {r \in DOMAIN requests : requests[r].pc = "done"}

\* The caller of authenticate(user, token) loads the user document it
\* will pass.
LoadUser(rid, userId, token) ==
    /\ rid \notin DOMAIN requests
    /\ userId \in DOMAIN accounts
    /\ requests' = requests @@ (rid :>
            [op |-> "authenticate", user |-> userId, arg |-> token,
             doc |-> accounts[userId], pc |-> "loaded",
             result |-> FALSE, path |-> "none", after |-> Authenticated])
    /\ UNCHANGED <<configured, circuit, accounts, now, prefs, notifs, nextId,
                   inflight, scan, events, probe>>

\* authenticate(user, token) up to its return or to the await of the $pull.
Authenticate(rid) ==
    /\ rid \in DOMAIN requests
    /\ requests[rid].op = "authenticate"
    /\ requests[rid].pc = "loaded"
    /\ LET r == requests[rid]
           user == r.doc
       IN requests' = [requests EXCEPT ![rid] =
            IF ~user.twoFactorEnabled \/ user.twoFactorSecret = "none"
            THEN [r EXCEPT !.pc = "done", !.result = TRUE, !.path = "disabled"]
            ELSE IF VerifyToken(r.arg, user.twoFactorSecret)
            THEN [r EXCEPT !.pc = "done", !.result = TRUE, !.path = "otp"]
            ELSE IF r.arg \in SeqToSet(user.backupCodes)
            THEN [r EXCEPT !.pc = "pull"]
            ELSE [r EXCEPT !.pc = "done", !.result = FALSE]]
    /\ UNCHANGED <<configured, circuit, accounts, now, prefs, notifs, nextId,
                   inflight, scan, events, probe>>

\* authenticate(user, token): the $pull lands and the call returns true.
AuthenticatePull(rid) ==
    /\ rid \in DOMAIN requests
    /\ requests[rid].op = "authenticate"
    /\ requests[rid].pc = "pull"
    /\ accounts' = PullBackupCode(accounts, requests[rid].user, requests[rid].arg)
    /\ requests' = [requests EXCEPT ![rid].pc = "done", ![rid].result = TRUE,
                                    ![rid].path = "backup"]
    /\ UNCHANGED <<configured, circuit, now, prefs, notifs, nextId, inflight,
                   scan, events, probe>>

\* ------------------------------------------------------- specifications
Empty == [x \in {} |-> TRUE]
NoUpdates == [channels |-> Empty, categories |-> Empty, digest |-> Empty,
              quietHours |-> Empty]

\* Partial updates as the settings page sends them.
ChannelToggle(ch, b) == [NoUpdates EXCEPT !.channels = (ch :> [enabled |-> b])]
CategoryToggle(c, ch, b) == [NoUpdates EXCEPT !.categories = (c :> (ch :> b))]
DigestChange(name, value) == [NoUpdates EXCEPT !.digest = (name :> value)]
QuietHoursChange(name, value) == [NoUpdates EXCEPT !.quietHours = (name :> value)]

\* --- the digest pipeline: one user, dispatches, preference changes and the
\* --- hourly cron ticks of one day.
DigestUpdates ==
    {DigestChange("frequency", f) : f \in {"daily", "weekly", "never"}}
    \cup {DigestChange("time", t) : t \in {<<9, 0>>, <<23, 30>>}}

DigestUsers == {"u1"}
\* <<type, priority>> of the payloads: an event of a category with email on
\* at normal and at urgent priority.
DigestPayloads == {<<"like", "none">>, <<"like", "urgent">>}

Next ==
    \/ \E r \in DigestUsers, pl \in DigestPayloads :
            nextId <= MaxNotifs /\ Send(r, pl[1], "none", pl[2], FALSE, "ok")
    \/ DayOf(NextTickTime(now)) < MaxDays /\ Tick
    \/ \E k \in Kinds, fetchOk \in BOOLEAN : DigestFetch(k, fetchOk)
    \/ \E k \in Kinds, sent \in BOOLEAN : DigestSend(k, sent)
    \/ \E k \in Kinds, flagOk \in BOOLEAN : DigestFlag(k, flagOk)
    \/ \E u \in DigestUsers, updates \in DigestUpdates : UpdatePreferences(u, updates)

Spec == Init /\ [][Next]_vars

\* --- the same pipeline with events of a category whose email switch is
\* --- off (content.email defaults to false) next to a deferred one.
EmailOffPayloads == {<<"like", "none">>, <<"share", "none">>, <<"share", "urgent">>}

NextEmailOff ==
    \/ \E r \in DigestUsers, pl \in EmailOffPayloads :
            nextId <= MaxNotifs /\ Send(r, pl[1], "none", pl[2], FALSE, "ok")
    \/ DayOf(NextTickTime(now)) < MaxDays /\ Tick
    \/ \E k \in Kinds, fetchOk \in BOOLEAN : DigestFetch(k, fetchOk)
    \/ \E k \in Kinds, sent \in BOOLEAN : DigestSend(k, sent)
    \/ \E k \in Kinds, flagOk \in BOOLEAN : DigestFlag(k, flagOk)
    \/ \E u \in DigestUsers, updates \in DigestUpdates : UpdatePreferences(u, updates)

SpecEmailOff == Init /\ [][NextEmailOff]_vars

\* --- the same pipeline over two days, with the digest time left alone.
NextRetry ==
    \/ \E r \in DigestUsers :
            nextId <= MaxNotifs /\ Send(r, "like", "none", "none", FALSE, "ok")
    \/ DayOf(NextTickTime(now)) < RetryDays /\ Tick
    \/ \E k \in Kinds, fetchOk \in BOOLEAN : DigestFetch(k, fetchOk)
    \/ \E k \in Kinds, sent \in BOOLEAN : DigestSend(k, sent)
    \/ \E k \in Kinds, flagOk \in BOOLEAN : DigestFlag(k, flagOk)
    \/ \E u \in DigestUsers, f \in {"daily", "weekly"} :
            UpdatePreferences(u, DigestChange("frequency", f))

SpecRetry == Init /\ [][NextRetry]_vars

\* --- the digest pipeline with the recipient reading, clicking and deleting
\* --- records between the scans.
\* The record the recipient opens, clicks or deletes.
ReaderIds == {1}

ReaderUpdates ==
    {DigestChange("frequency", f) : f \in {"daily", "weekly"}}
    \cup {DigestChange("time", t) : t \in {<<9, 0>>, <<23, 30>>}}

NextReader ==
    \/ \E r \in DigestUsers :
            nextId <= MaxNotifs /\ Send(r, "like", "none", "none", FALSE, "ok")
    \/ DayOf(NextTickTime(now)) < MaxDays /\ Tick
    \/ \E k \in Kinds, fetchOk \in BOOLEAN : DigestFetch(k, fetchOk)
    \/ \E k \in Kinds, sent \in BOOLEAN : DigestSend(k, sent)
    \/ \E k \in Kinds, flagOk \in BOOLEAN : DigestFlag(k, flagOk)
    \/ \E u \in DigestUsers, updates \in ReaderUpdates : UpdatePreferences(u, updates)
    \/ \E u \in DigestUsers, id \in ReaderIds : MarkRead(u, id)
    \/ \E u \in DigestUsers, id \in ReaderIds : TrackClick(u, id)
    \/ \E u \in DigestUsers, id \in ReaderIds : DeleteNotification(u, id)

SpecReader == Init /\ [][NextReader]_vars

\* --- the dispatcher alone: send with every store outcome, the push
\* --- completion, quiet-hours and push switches, at a fixed time of day.
\* Midnight lies inside the default quiet window 22:00-08:00, noon outside.
DispatchTimes == {0, 12}
SaveResults == {"prefFail", "ok", "fail", "earlyOnly"}
\* "poke" is not a member of the type enum.
DispatchTypes == {"like", "poke"}
PushEndpoints == {"e1"}
PushAnswers == {"ok", "gone", "error"}
DispatchUpdates ==
    {QuietHoursChange("enabled", b) : b \in BOOLEAN}
    \cup {ChannelToggle("push", b) : b \in BOOLEAN}

InitDispatch ==
    /\ now \in DispatchTimes
    /\ prefs = <<>>
    /\ notifs = <<>>
    /\ nextId = 1
    /\ inflight = <<>>
    /\ scan = [k \in Kinds |-> IdleScan]
    /\ events = <<>>
    /\ probe = NoProbe
    /\ configured = TRUE
    /\ requests = <<>>
    /\ circuit = NewCircuit
    /\ accounts = <<>>

NextDispatch ==
    \/ \E r \in DigestUsers, type \in DispatchTypes, prio \in {"none", "urgent"},
          online \in BOOLEAN, saveRes \in SaveResults :
            nextId <= MaxDispatch /\ Send(r, type, "none", prio, online, saveRes)
    \/ \E id \in 1..MaxDispatch, saveOk \in BOOLEAN :
         \E result \in UNION {[S -> PushAnswers] : S \in SUBSET PushEndpoints} :
            PushComplete(id, result, saveOk)
    \/ \E u \in DigestUsers, updates \in DispatchUpdates : UpdatePreferences(u, updates)
    \/ \E u \in DigestUsers, e \in PushEndpoints : SubscribePush(u, e)
    \/ \E u \in DigestUsers, e \in PushEndpoints : UnsubscribePush(u, e)

SpecDispatch == InitDispatch /\ [][NextDispatch]_vars

\* --- shouldSend on preference documents with every combination of master
\* --- switches and of the stored switches of one category.
ProbeDocs ==
    {[DefaultPrefs EXCEPT
        !.channels = [ch \in Channels |-> [enabled |-> en[ch]]],
        !.categories["social"] = ov] :
            en \in [Channels -> BOOLEAN],
            ov \in [CatChannels -> {"on", "off", "unset"}]}
ProbeCategories == {"social", "content", "marketing", "unknown"}

InitPrefs ==
    /\ now = 0
    /\ prefs \in {("u1" :> p) : p \in ProbeDocs}
    /\ notifs = <<>>
    /\ nextId = 1
    /\ inflight = <<>>
    /\ scan = [k \in Kinds |-> IdleScan]
    /\ events = <<>>
    /\ probe = NoProbe
    /\ configured = TRUE
    /\ requests = <<>>
    /\ circuit = NewCircuit
    /\ accounts = <<>>

NextPrefs ==
    \/ \E u \in DigestUsers, ch \in Channels, c \in ProbeCategories :
            ProbeShouldSend(u, ch, c)
    \/ \E u \in Users, ch \in Channels, c \in ProbeCategories :
            ProbeLoaded(u, ch, c)

SpecPrefs == InitPrefs /\ [][NextPrefs]_vars

\* --- isInQuietHours on documents with wrapping, non-wrapping and empty
\* --- windows, at clock readings on and around the window borders.
QuietTimes == {TimeString("2", "2", "0", "0"), TimeString("0", "8", "0", "0"),
               TimeString("0", "9", "0", "0"), TimeString("1", "7", "0", "0")}
ClockReadings == {<<0, 0>>, <<3, 0>>, <<7, 59>>, <<8, 0>>, <<8, 59>>, <<9, 0>>,
                  <<10, 0>>, <<12, 0>>, <<16, 59>>, <<17, 0>>, <<21, 59>>,
                  <<22, 0>>, <<23, 0>>, <<23, 59>>}

InitQuiet ==
    /\ now = 0
    /\ prefs \in {("u1" :> [DefaultPrefs EXCEPT !.quietHours =
                        [enabled |-> b, startTime |-> st, endTime |-> en]]) :
                    b \in BOOLEAN, st \in QuietTimes, en \in QuietTimes}
    /\ notifs = <<>>
    /\ nextId = 1
    /\ inflight = <<>>
    /\ scan = [k \in Kinds |-> IdleScan]
    /\ events = <<>>
    /\ probe = NoProbe
    /\ configured = TRUE
    /\ requests = <<>>
    /\ circuit = NewCircuit
    /\ accounts = <<>>

NextQuiet ==
    \E u \in DigestUsers, clock \in ClockReadings : ProbeQuietHours(u, clock)

SpecQuiet == InitQuiet /\ [][NextQuiet]_vars

\* --- sendToUser on subscription sets of up to three endpoints, with and
\* --- without VAPID keys, and endpoints subscribing again after a pruning.
FanOutEndpoints == {"e1", "e2", "e3"}
SubscriptionLists ==
    {q \in UNION {[1..n -> FanOutEndpoints] : n \in 0..Cardinality(FanOutEndpoints)} :
        \A i, j \in 1..Len(q) : i # j => q[i] # q[j]}

InitPush ==
    /\ now = 0
    /\ prefs \in {("u1" :> [DefaultPrefs EXCEPT !.pushSubscriptions = q]) :
                    q \in SubscriptionLists}
    /\ notifs = <<>>
    /\ nextId = 1
    /\ inflight = <<>>
    /\ scan = [k \in Kinds |-> IdleScan]
    /\ events = <<>>
    /\ probe = NoProbe
    /\ configured \in BOOLEAN
    /\ requests = <<>>
    /\ circuit = NewCircuit
    /\ accounts = <<>>

NextPush ==
    \/ \E u \in DigestUsers, pruneOk \in BOOLEAN :
         \E answers \in UNION {[S -> PushAnswers] : S \in SUBSET FanOutEndpoints} :
            SendToUserCall(u, answers, pruneOk)
    \/ \E u \in DigestUsers, e \in FanOutEndpoints : SubscribePush(u, e)

SpecPush == InitPush /\ [][NextPush]_vars

\* --- partial preference updates on a document, new or holding a push
\* --- subscription: one switch, one category switch or one setting at a
\* --- time, and the email channel with an override address.
EmailAddressChange(b, a) ==
    [NoUpdates EXCEPT !.channels = ("email" :> [enabled |-> b, address |-> a])]

MergeUpdates ==
    {ChannelToggle(ch, b) : ch \in {"email", "sms"}, b \in BOOLEAN}
    \cup {EmailAddressChange(TRUE, "a1")}
    \cup {CategoryToggle("social", ch, b) : ch \in CatChannels, b \in BOOLEAN}
    \cup {DigestChange("frequency", f) : f \in {"daily", "weekly"}}
    \cup {QuietHoursChange("enabled", b) : b \in BOOLEAN}

InitMerge ==
    /\ now = 0
    /\ prefs \in {<<>>, ("u1" :> [DefaultPrefs EXCEPT !.pushSubscriptions = <<"e1">>])}
    /\ notifs = <<>>
    /\ nextId = 1
    /\ inflight = <<>>
    /\ scan = [k \in Kinds |-> IdleScan]
    /\ events = <<>>
    /\ probe = NoProbe
    /\ configured = TRUE
    /\ requests = <<>>
    /\ circuit = NewCircuit
    /\ accounts = <<>>

NextMerge ==
    \E u \in DigestUsers, updates \in MergeUpdates : UpdatePreferencesCall(u, updates)

SpecMerge == InitMerge /\ [][NextMerge]_vars

\* --- one preference update, two registrations, one unregistration and one
\* --- pruning, each once, interleaved on a document that holds two
\* --- endpoints.
ConcurrentUpdates ==
    {ChannelToggle("email", FALSE), CategoryToggle("social", "push", FALSE),
     QuietHoursChange("enabled", TRUE)}
SubscribeRequests == {"subscribeA", "subscribeB"}
NewEndpoints == {"e3", "e4"}

InitConcurrent ==
    /\ now = 0
    /\ prefs = ("u1" :> [DefaultPrefs EXCEPT !.pushSubscriptions = <<"e1", "e2">>])
    /\ notifs = <<>>
    /\ nextId = 1
    /\ inflight = <<>>
    /\ scan = [k \in Kinds |-> IdleScan]
    /\ events = <<>>
    /\ probe = NoProbe
    /\ configured = TRUE
    /\ requests = <<>>
    /\ circuit = NewCircuit
    /\ accounts = <<>>

NextConcurrent ==
    \/ \E updates \in ConcurrentUpdates : BeginUpdatePreferences("update", "u1", updates)
    \/ SaveUpdatePreferences("update")
    \/ \E rid \in SubscribeRequests, e \in NewEndpoints : BeginSubscribePush(rid, "u1", e)
    \/ \E rid \in SubscribeRequests : SaveSubscribePush(rid)
    \/ UnsubscribePushCall("unsubscribe", "u1", "e1")
    \/ PruneCall("prune", "u1", {"e2"})

SpecConcurrent == InitConcurrent /\ [][NextConcurrent]_vars

\* --- the first requests of a user who has no preferences document: a
\* --- read, a dispatch, an update and a registration racing to create it.
CreateUpdates == {DigestChange("frequency", "weekly"), ChannelToggle("sms", TRUE)}

InitCreate ==
    /\ now = 0
    /\ prefs = <<>>
    /\ notifs = <<>>
    /\ nextId = 1
    /\ inflight = <<>>
    /\ scan = [k \in Kinds |-> IdleScan]
    /\ events = <<>>
    /\ probe = NoProbe
    /\ configured = TRUE
    /\ requests = <<>>
    /\ circuit = NewCircuit
    /\ accounts = <<>>

NextCreate ==
    \/ BeginGetOrCreate("get", "getPreferences", "u1")
    \/ BeginGetOrCreate("send", "send", "u1")
    \/ \E rid \in {"get", "send"} : SaveGetOrCreate(rid)
    \/ \E updates \in CreateUpdates : BeginUpdatePreferences("update", "u1", updates)
    \/ SaveUpdatePreferences("update")
    \/ \E e \in NewEndpoints : BeginSubscribePush("subscribeA", "u1", e)
    \/ SaveSubscribePush("subscribeA")
    \/ \E online \in BOOLEAN :
          /\ nextId <= MaxDispatch
          /\ "send" \in DOMAIN requests
          /\ requests["send"].pc = "ok"
          /\ Send("u1", "like", "none", "none", online, "ok")

SpecCreate == InitCreate /\ [][NextCreate]_vars

\* --- the three per-record routes called by either user with any id: the
\* --- caller's own record, the other user's record, an id that is not
\* --- stored.
OwnerIds == 1..(MaxNotifs + 1)

NextOwner ==
    \/ \E r \in Users :
          nextId <= MaxNotifs /\ Send(r, "like", "none", "none", FALSE, "ok")
    \/ \E u \in Users, id \in OwnerIds : MarkReadCall(u, id)
    \/ \E u \in Users, id \in OwnerIds : TrackClickCall(u, id)
    \/ \E u \in Users, id \in OwnerIds : DeleteNotificationCall(u, id)

SpecOwner == Init /\ [][NextOwner]_vars

\* --- the listing queries over a stored collection of read and unread
\* --- records of both users, without and with an expiry time, as the clock
\* --- passes the expiry times.
ExpiryTimes == {5, 12}

\* A record as send stores it when payload.expiresAt is given.
WithExpiry(doc, t) == [expiresAt |-> t] @@ doc

ListingDocs ==
    LET fresh == {[NewNotification(r, "like", "social", "normal")
                     EXCEPT !.createdAt = 0] : r \in Users}
        plain == fresh \cup {MarkAsRead(d, 0) : d \in fresh}
    IN plain \cup {WithExpiry(d, t) : d \in plain, t \in ExpiryTimes}

InitListing ==
    /\ now = 0
    /\ prefs = <<>>
    /\ notifs \in [1..MaxNotifs -> ListingDocs]
    /\ nextId = MaxNotifs + 1
    /\ inflight = <<>>
    /\ scan = [k \in Kinds |-> IdleScan]
    /\ events = <<>>
    /\ probe = NoProbe
    /\ configured = TRUE
    /\ requests = <<>>
    /\ circuit = NewCircuit
    /\ accounts = <<>>

NextListing ==
    \/ DayOf(NextTickTime(now)) < MaxDays /\ Tick
    \/ \E u \in Users : GetNotificationsCall(u)
    \/ \E u \in Users : GetUnreadCall(u)

SpecListing == InitListing /\ [][NextListing]_vars

\* --- the scans of a day against a user who changes the digest
\* --- frequency, hour and weekday between the ticks, next to a user who
\* --- keeps the default daily digest at 09:00.
MatchUpdates ==
    {DigestChange("frequency", f) : f \in {"daily", "weekly", "never"}}
    \cup {DigestChange("time", t) : t \in {<<9, 0>>, <<23, 30>>}}
    \cup {DigestChange("dayOfWeek", d) : d \in {WeekdayOf(0), WeekdayOf(HoursPerDay)}}

NextMatch ==
    \/ \E r \in Users :
            nextId <= MaxNotifs /\ Send(r, "like", "none", "none", FALSE, "ok")
    \/ DayOf(NextTickTime(now)) < MaxDays /\ Tick
    \/ \E k \in Kinds : DigestFetch(k, TRUE)
    \/ \E k \in Kinds : DigestSend(k, TRUE)
    \/ \E k \in Kinds : DigestFlag(k, TRUE)
    \/ \E u \in DigestUsers, updates \in MatchUpdates : UpdatePreferences(u, updates)

SpecMatch == Init /\ [][NextMatch]_vars

\* --- dispatches to a recipient with and without a live session, with the
\* --- in-app master switch and the social in-app switch turned on and off,
\* --- with every outcome of the saves and with the push fan-out completing.
InAppUpdates ==
    {ChannelToggle("inApp", b) : b \in BOOLEAN}
    \cup {CategoryToggle("social", "inApp", b) : b \in BOOLEAN}

NextInApp ==
    \/ \E r \in DigestUsers, prio \in {"none", "urgent"},
          online \in BOOLEAN, saveRes \in SaveResults :
            nextId <= MaxDispatch /\ Send(r, "like", "none", prio, online, saveRes)
    \/ \E id \in 1..MaxDispatch, saveOk \in BOOLEAN :
         \E result \in UNION {[S -> PushAnswers] : S \in SUBSET PushEndpoints} :
            PushComplete(id, result, saveOk)
    \/ \E u \in DigestUsers, updates \in InAppUpdates : UpdatePreferences(u, updates)
    \/ \E u \in DigestUsers, e \in PushEndpoints : SubscribePush(u, e)

SpecInApp == InitDispatch /\ [][NextInApp]_vars

\* --- dispatches with push allowed, switched off or suppressed by quiet
\* --- hours, the fan-out completing later with every answer of the
\* --- endpoint, and the recipient reading the record in between.
FanoutUpdates == {ChannelToggle("push", b) : b \in BOOLEAN}

NextFanout ==
    \/ \E r \in DigestUsers, prio \in {"none", "urgent"},
          online \in BOOLEAN, saveRes \in SaveResults :
            nextId <= MaxDispatch /\ Send(r, "like", "none", prio, online, saveRes)
    \/ \E id \in 1..MaxDispatch, saveOk \in BOOLEAN :
         \E result \in UNION {[S -> PushAnswers] : S \in SUBSET PushEndpoints} :
            PushCompleteCall(id, result, saveOk)
    \/ \E u \in DigestUsers, updates \in FanoutUpdates : UpdatePreferences(u, updates)
    \/ \E u \in DigestUsers, e \in PushEndpoints : SubscribePush(u, e)
    \/ \E u \in DigestUsers, id \in 1..MaxDispatch : MarkRead(u, id)

SpecFanout == InitDispatch /\ [][NextFanout]_vars

\* --- dispatches of every type, with and without a category in the
\* --- payload, to a recipient who turns the social push switch on and off.
PayloadTypes == TypeEnum \cup {"poke"}
PayloadCategories == Categories \cup {"none"}
CategoryUpdates ==
    {CategoryToggle("social", "push", b) : b \in BOOLEAN}

NextCategory ==
    \/ \E r \in DigestUsers, type \in PayloadTypes, cat \in PayloadCategories :
            nextId <= MaxDispatch /\ Send(r, type, cat, "none", FALSE, "ok")
    \/ \E u \in DigestUsers, updates \in CategoryUpdates : UpdatePreferences(u, updates)

SpecCategory == InitDispatch /\ [][NextCategory]_vars

\* --- a tick at which more users match than the scan's find() returns:
\* --- every user of the crowd keeps the default daily digest at 09:00, and
\* --- events go to the first and to the last of them in the find() order.
CrowdRecipients ==
    {SetToSeq(Crowd)[1], SetToSeq(Crowd)[batchSize + 1]}

InitCrowd ==
    /\ now = 0
    /\ prefs = [u \in Crowd |-> DefaultPrefs]
    /\ notifs = <<>>
    /\ nextId = 1
    /\ inflight = <<>>
    /\ scan = [k \in Kinds |-> IdleScan]
    /\ events = <<>>
    /\ probe = NoProbe
    /\ configured = TRUE
    /\ requests = <<>>
    /\ circuit = NewCircuit
    /\ accounts = <<>>

NextCrowd ==
    \/ \E r \in CrowdRecipients :
            nextId <= MaxDispatch /\ Send(r, "like", "none", "none", FALSE, "ok")
    \/ DayOf(NextTickTime(now)) < MaxDays /\ Tick
    \/ \E k \in Kinds : DigestFetch(k, TRUE)
    \/ \E k \in Kinds : DigestSend(k, TRUE)
    \/ \E k \in Kinds : DigestFlag(k, TRUE)

SpecCrowd == InitCrowd /\ [][NextCrowd]_vars

\* --- the life of a record: one recipient, events dispatched while online
\* --- or offline, the asynchronous push completion, the three reader calls
\* --- and the digest pipeline of the 09:00 tick.
LifecycleTickHours == {DefaultPrefs.digest.time[1]}
LifecycleCategories == {"none", "social"}

NextLifecycle ==
    \/ \E online \in BOOLEAN :
          nextId <= MaxDispatch /\ Send("u1", "like", "none", "none", online, "ok")
    \/ SubscribePush("u1", "e1")
    \/ \E id \in DOMAIN inflight : \E saveOk \in BOOLEAN :
          \E result \in [SeqToSet(inflight[id].subs) -> {"ok", "error"}] :
             PushComplete(id, result, saveOk)
    \/ \E id \in DOMAIN notifs : MarkRead("u1", id)
    \/ \E id \in DOMAIN notifs : TrackClick("u1", id)
    \/ \E c \in LifecycleCategories : MarkAllRead("u1", c)
    \/ HourOf(NextTickTime(now)) \in LifecycleTickHours
          /\ DayOf(NextTickTime(now)) < MaxDays /\ Tick
    \/ \E k \in Kinds : \E ok \in BOOLEAN : DigestFetch(k, ok)
    \/ \E k \in Kinds : \E sent \in BOOLEAN : DigestSend(k, sent)
    \/ \E k \in Kinds : \E ok \in BOOLEAN : DigestFlag(k, ok)

SpecLifecycle == Init /\ [][NextLifecycle]_vars

\* --- mark-all-read over a collection holding both users' records of two
\* --- categories, some of them already read through a click.
ReadAllRecords == MaxNotifs + 2
ReadAllTypes == {"like", "share"}
ReadAllCategories == {"none", "social"}

NextReadAll ==
    \/ \E r \in Users, type \in ReadAllTypes :
          nextId <= ReadAllRecords /\ Send(r, type, "none", "none", FALSE, "ok")
    \/ \E u \in Users, id \in ReaderIds : TrackClick(u, id)
    \/ \E u \in Users, c \in ReadAllCategories : MarkAllRead(u, c)

SpecReadAll == Init /\ [][NextReadAll]_vars

\* --- one scan over two matched users: both have the default daily digest
\* --- at 09:00, and each step of each user's digest can fail.
NextBatch ==
    \/ \E r \in Users :
          nextId <= MaxNotifs /\ Send(r, "like", "none", "none", FALSE, "ok")
    \/ DayOf(NextTickTime(now)) < MaxDays /\ Tick
    \/ \E k \in Kinds, fetchOk \in BOOLEAN : DigestFetch(k, fetchOk)
    \/ \E k \in Kinds, sent \in BOOLEAN : DigestSend(k, sent)
    \/ \E k \in Kinds, flagOk \in BOOLEAN : DigestFlag(k, flagOk)

SpecBatch == Init /\ [][NextBatch]_vars

\* --- records deleted by the recipient while their push fan-out is on its
\* --- way or while the 09:00 digest scan holds them in its batch.
NextDelete ==
    \/ nextId <= MaxNotifs /\ Send("u1", "like", "none", "none", FALSE, "ok")
    \/ SubscribePush("u1", "e1")
    \/ \E id \in DOMAIN inflight :
          \E result \in [SeqToSet(inflight[id].subs) -> {"ok", "error"}] :
             PushComplete(id, result, TRUE)
    \/ \E id \in DOMAIN notifs : DeleteNotification("u1", id)
    \/ HourOf(NextTickTime(now)) \in LifecycleTickHours
          /\ DayOf(NextTickTime(now)) < MaxDays /\ Tick
    \/ \E k \in Kinds : DigestFetch(k, TRUE)
    \/ \E k \in Kinds : DigestSend(k, TRUE)
    \/ \E k \in Kinds : DigestFlag(k, TRUE)

SpecDelete == Init /\ [][NextDelete]_vars

\* --- the digest pipeline of a user whose digest settings stay as they
\* --- are, daily or weekly, with a working store and email transport: the
\* --- cron keeps ticking and every started scan runs to its end.
InitSteady ==
    /\ now = 0
    /\ prefs \in {("u1" :> [DefaultPrefs EXCEPT !.digest.frequency = f]) :
                    f \in Kinds}
    /\ notifs = <<>>
    /\ nextId = 1
    /\ inflight = <<>>
    /\ scan = [k \in Kinds |-> IdleScan]
    /\ events = <<>>
    /\ probe = NoProbe
    /\ configured = TRUE
    /\ requests = <<>>
    /\ circuit = NewCircuit
    /\ accounts = <<>>

SteadyTick == DayOf(NextTickTime(now)) < MaxDays /\ Tick

NextSteady ==
    \/ \E prio \in {"none", "urgent"} :
          nextId <= MaxDispatch /\ Send("u1", "like", "none", prio, FALSE, "ok")
    \/ SteadyTick
    \/ \E k \in Kinds : DigestFetch(k, TRUE)
    \/ \E k \in Kinds : DigestSend(k, TRUE)
    \/ \E k \in Kinds : DigestFlag(k, TRUE)
    \/ \E id \in DOMAIN notifs : MarkRead("u1", id)
    \/ \E id \in DOMAIN notifs : DeleteNotification("u1", id)

SpecSteady ==
    /\ InitSteady
    /\ [][NextSteady]_vars
    /\ WF_vars(SteadyTick)
    /\ \A k \in Kinds :
          /\ WF_vars(DigestFetch(k, TRUE))
          /\ WF_vars(DigestSend(k, TRUE))
          /\ WF_vars(DigestFlag(k, TRUE))

\* --- the digest pipeline of a user who turns the email master switch off
\* --- and on between the scans.
MasterUpdates == {ChannelToggle("email", b) : b \in BOOLEAN}

NextMaster ==
    \/ nextId <= MaxNotifs /\ Send("u1", "like", "none", "none", FALSE, "ok")
    \/ DayOf(NextTickTime(now)) < MaxDays /\ Tick
    \/ \E k \in Kinds : DigestFetch(k, TRUE)
    \/ \E k \in Kinds, sent \in BOOLEAN : DigestSend(k, sent)
    \/ \E k \in Kinds : DigestFlag(k, TRUE)
    \/ \E updates \in MasterUpdates :
          (\A k \in Kinds : scan[k].pc = "idle") /\ UpdatePreferences("u1", updates)

SpecMaster == Init /\ [][NextMaster]_vars

\* --- one circuit breaker with the default configuration: calls of
\* --- execute with and without a fallback, overlapping, each succeeding or
\* --- failing, while time passes.
NextCircuit ==
    \/ \E fallback \in BOOLEAN : Execute(fallback)
    \/ \E fallback \in BOOLEAN, ok \in BOOLEAN : Settle(fallback, ok)
    \/ TimePasses

SpecCircuit == Init /\ [][NextCircuit]_vars

\* --- one user who enables MFA once, and logins that load the user and
\* --- call authenticate, overlapping.
Logins == {"r1", "r2", "r3"}

InitMFA ==
    /\ now = 0
    /\ prefs = <<>>
    /\ notifs = <<>>
    /\ nextId = 1
    /\ inflight = <<>>
    /\ scan = [k \in Kinds |-> IdleScan]
    /\ events = <<>>
    /\ probe = NoProbe
    /\ configured = TRUE
    /\ requests = <<>>
    /\ circuit = NewCircuit
    /\ accounts = [u \in {"u1"} |-> NoMFA]

NextMFA ==
    \/ \E secret \in Secrets, token \in Tokens,
          codes \in GenerateBackupCodes(CodesPerUser) :
          EnableMFA("u1", secret, token, codes)
    \/ \E rid \in Logins, token \in Tokens : LoadUser(rid, "u1", token)
    \/ \E rid \in Logins : Authenticate(rid)
    \/ \E rid \in Logins : AuthenticatePull(rid)

SpecMFA == InitMFA /\ [][NextMFA]_vars

\* ----------------------------------------------------------- properties
\* The scan of kind k has fetched the digest batch of the recipient of
\* event n, whose record lies within the lookback window of that scan.
ScanReached(k, n) ==
    /\ scan[k].pc \in {"send", "flag"}
    /\ n \in DOMAIN notifs
    /\ Head(scan[k].queue) = notifs[n].recipient
    /\ notifs[n].createdAt >= now - LookbackHours(k)

C2_FlipOnlyAfterSuccessfulSend ==
    [][/\ \A n \in DOMAIN notifs \cap DOMAIN notifs' :
            notifs'[n].channels.email # notifs[n].channels.email =>
                \E k \in Kinds :
                    /\ scan[k].pc = "flag"
                    /\ scan[k].sent
                    /\ n \in scan[k].batch
                    /\ notifs'[n].channels.email =
                         [notifs[n].channels.email EXCEPT
                             !.delivered = TRUE, !.deliveredAt = now]
       /\ \A k \in Kinds :
            (scan[k].pc = "flag" /\ scan'[k].pc # "flag") =>
                \/ \A n \in scan[k].batch \cap DOMAIN notifs :
                        notifs'[n].channels.email.delivered
                \/ notifs' = notifs
       /\ \A k \in Kinds :
            (scan[k].pc = "send" /\ scan'[k].pc # "send") => notifs' = notifs
      ]_vars

\* One record was flipped by a digest that was sent, and another, whose
\* digest failed, is still undelivered.
C2_Witness ==
    \E n, m \in DOMAIN notifs :
        /\ events[n].flips = 1
        /\ notifs[n].channels.email.delivered
        /\ events[m].failed
        /\ ~notifs[m].channels.email.delivered
        /\ notifs[m].channels.email.includeInDigest

\* C3: a notification whose digest failed is in the batch of the next scan
\* that reaches its recipient.
C3_FailedDigestRetried ==
    \A n \in DOMAIN events : ~events[n].missed

\* C4: a send call either returns, and then exactly one record of the event
\* is stored, or raises an error; no event has more than one stored record,
\* more than one live emission or more than one push fan-out, and a record
\* is marked push-delivered only if a fan-out was started for it.
C4_SendOutcome ==
    \A n \in DOMAIN events :
        /\ events[n].outcome \in {"returned", "error"}
        /\ events[n].outcome = "returned" =>
                (n \in DOMAIN notifs /\ events[n].inserts = 1)
        /\ (n \in DOMAIN notifs) = (events[n].inserts = 1)
        /\ events[n].inserts <= 1
        /\ events[n].emissions <= 1
        /\ events[n].fanouts <= 1
        /\ (n \in DOMAIN notifs /\ notifs[n].channels.push.delivered) =>
                events[n].fanouts = 1

\* A send returned its stored record after one live emission and one push
\* fan-out, and the fan-out has completed.
C4_Witness ==
    \E n \in DOMAIN events :
        /\ events[n].outcome = "returned"
        /\ events[n].emissions = 1
        /\ events[n].fanouts = 1
        /\ n \in DOMAIN notifs
        /\ n \notin DOMAIN inflight
        /\ notifs[n].channels.push.delivered

\* C5: a send call that stored no record raised an error and performed
\* neither a live emission nor a push fan-out.
C5_NoSideEffectWithoutRecord ==
    \A n \in DOMAIN events :
        (events[n].inserts = 0 /\ n \notin DOMAIN notifs) =>
            /\ events[n].outcome = "error"
            /\ events[n].emissions = 0
            /\ events[n].fanouts = 0

\* C6: an event dispatched with email allowed and frequency "never" or
\* priority "urgent" is stored with email.delivered set and includeInDigest
\* clear, and no digest scan ever selects or flips it.
C6_ImmediateEmail ==
    \A n \in DOMAIN notifs :
        events[n].facts.email = "immediate" =>
            /\ notifs[n].channels.email.delivered
            /\ ~notifs[n].channels.email.includeInDigest
            /\ events[n].flips = 0
            /\ \A k \in Kinds : n \notin scan[k].batch

\* A non-urgent event dispatched under frequency "never" lies in the window
\* of a scan that fetched its recipient's batch.
C6_Witness ==
    \E n \in DOMAIN notifs, k \in Kinds :
        /\ events[n].facts.email = "immediate"
        /\ events[n].facts.priority # "urgent"
        /\ ScanReached(k, n)

\* C7: an event dispatched with email allowed, frequency daily or weekly and
\* a non-urgent priority is stored with email.delivered clear and
\* includeInDigest set, and stays so until a digest flips it.
C7_DeferredEmail ==
    \A n \in DOMAIN notifs :
        events[n].facts.email = "deferred" =>
            /\ notifs[n].channels.email.includeInDigest
            /\ notifs[n].channels.email.delivered = (events[n].flips > 0)

\* A deferred event went through a failed digest and is still waiting.
C7_Witness ==
    \E n \in DOMAIN notifs :
        /\ events[n].facts.email = "deferred"
        /\ events[n].failed
        /\ events[n].flips = 0
        /\ prefs[notifs[n].recipient].digest.frequency # "never"

C9_QuietHoursPushOnly ==
    \A n \in DOMAIN events :
        events[n].facts.email # "none" =>
            LET f == events[n].facts IN
            /\ events[n].fanouts =
                 IF f.pushAllowed /\ (~f.quiet \/ f.priority = "urgent")
                 THEN 1 ELSE 0
            /\ events[n].emissions = IF f.inAppAllowed /\ f.online THEN 1 ELSE 0
            /\ n \in DOMAIN notifs =>
                 /\ notifs[n].channels.inApp.delivered = (f.inAppAllowed /\ f.online)
                 /\ notifs[n].channels.email.delivered = (f.email = "immediate")
                 /\ notifs[n].channels.email.includeInDigest = (f.email = "deferred")

\* An urgent event dispatched during active quiet hours was fanned out and
\* emitted live, and its record is stored.
C9_Witness ==
    \E n \in DOMAIN notifs :
        /\ events[n].facts.quiet
        /\ events[n].facts.priority = "urgent"
        /\ events[n].facts.pushAllowed
        /\ events[n].fanouts = 1
        /\ events[n].emissions = 1

\* C10: shouldSend on a channel whose master switch is off answers false,
\* whatever the category and its stored switches.
C10_MasterSwitchOff ==
    (probe.op = "shouldSend"
     /\ ~prefs[probe.user].channels[probe.channel].enabled)
        => ~probe.result

\* shouldSend was asked for a channel that is off at the master switch and
\* on in the category.
C10_Witness ==
    /\ probe.op = "shouldSend"
    /\ ~prefs[probe.user].channels[probe.channel].enabled
    /\ probe.category \in DOMAIN prefs[probe.user].categories
    /\ probe.channel \in CatChannels
    /\ prefs[probe.user].categories[probe.category][probe.channel] = "on"
    /\ ~probe.result

\* The stored document of user u carries no category switch.
NoOverride(u) ==
    \A c \in Categories, ch \in CatChannels : prefs[u].categories[c][ch] = "unset"

\* C11 as stated: on a loaded document without any override, shouldSend
\* answers true for every category and every channel whose master switch
\* is on.
C11_NoOverrideAllowsAll ==
    (probe.op = "loaded"
     /\ NoOverride(probe.user)
     /\ prefs[probe.user].channels[probe.channel].enabled)
        => probe.result

\* C11 amended: on a loaded document without any override and with the
\* master switch of the channel on, shouldSend answers false for
\* content/email, marketing/email and marketing/push, whose schema default
\* is false, and true for every other category and channel.
C11_NoOverrideGivesSchemaDefault ==
    (probe.op = "loaded"
     /\ NoOverride(probe.user)
     /\ prefs[probe.user].channels[probe.channel].enabled)
        => (probe.result =
              (<<probe.category, probe.channel>> \notin
                 {<<"content", "email">>, <<"marketing", "email">>,
                  <<"marketing", "push">>}))

\* shouldSend was asked for marketing email on a document created lazily
\* with its defaults, and answered false.
C11_Witness ==
    /\ probe.op = "loaded"
    /\ probe.user = "u2"
    /\ NoOverride(probe.user)
    /\ prefs[probe.user] = DefaultPrefs
    /\ probe.category = "marketing"
    /\ probe.channel = "email"
    /\ ~probe.result

\* Minutes since midnight of the times of day the documents hold.
MinutesOfDay(str) ==
    CASE str = TimeString("2", "2", "0", "0") -> 22 * 60
      [] str = TimeString("0", "8", "0", "0") -> 8 * 60
      [] str = TimeString("0", "9", "0", "0") -> 9 * 60
      [] str = TimeString("1", "7", "0", "0") -> 17 * 60

\* isInQuietHours answered for a window st-en at the clock reading clock.
QuietAnswer(st, en, clock) ==
    /\ probe.op = "isInQuietHours"
    /\ prefs[probe.user].quietHours.enabled
    /\ prefs[probe.user].quietHours.startTime = st
    /\ prefs[probe.user].quietHours.endTime = en
    /\ probe.clock = clock

\* C12: isInQuietHours answers false when quiet hours are disabled, and
\* otherwise (s <= n /\ n < e) when s < e and (n >= s \/ n < e) when s >= e,
\* for s, e, n the start, the end and the clock in minutes since midnight;
\* 22:00-08:00 is true at 23:00 and 03:00 and false at 12:00, 09:00-17:00 is
\* true at 10:00 and false at 08:59 and at 17:00.
C12_QuietHoursWindow ==
    probe.op = "isInQuietHours" =>
        LET q == prefs[probe.user].quietHours
            s == MinutesOfDay(q.startTime)
            e == MinutesOfDay(q.endTime)
            n == probe.clock[1] * 60 + probe.clock[2]
            night == QuietAnswer(TimeString("2", "2", "0", "0"),
                                 TimeString("0", "8", "0", "0"), probe.clock)
            office == QuietAnswer(TimeString("0", "9", "0", "0"),
                                  TimeString("1", "7", "0", "0"), probe.clock)
        IN /\ ~q.enabled => ~probe.result
           /\ (q.enabled /\ s < e) => (probe.result = (s <= n /\ n < e))
           /\ (q.enabled /\ s >= e) => (probe.result = (n >= s \/ n < e))
           /\ (night /\ probe.clock \in {<<23, 0>>, <<3, 0>>}) => probe.result
           /\ (night /\ probe.clock = <<12, 0>>) => ~probe.result
           /\ (office /\ probe.clock = <<10, 0>>) => probe.result
           /\ (office /\ probe.clock \in {<<8, 59>>, <<17, 0>>}) => ~probe.result

\* isInQuietHours answered false for the window 09:00-17:00 at 17:00.
C12_Witness ==
    /\ QuietAnswer(TimeString("0", "9", "0", "0"),
                   TimeString("1", "7", "0", "0"), <<17, 0>>)
    /\ ~probe.result

\* The number of endpoints of the last sendToUser call that accepted.
Accepted ==
    Cardinality({e \in SeqToSet(probe.subs) : probe.answers[e] = "ok"})

\* C13 as stated: every sendToUser call attempts every registered endpoint
\* and returns total = the number of registered endpoints, deliveredTo = the
\* number that accepted, and success = (deliveredTo >= 1).
C13_FanOutCounts ==
    probe.op = "sendToUser" =>
        /\ probe.attempts = probe.subs
        /\ DOMAIN probe.result = {"success", "deliveredTo", "total"}
        /\ probe.result.total = Len(probe.subs)
        /\ probe.result.deliveredTo = Accepted
        /\ probe.result.success = (probe.result.deliveredTo >= 1)

\* C13 amended: when the push service is configured, sendToUser attempts
\* every registered endpoint, whatever the earlier ones answered, and
\* returns total, deliveredTo and success as stated; when it is not
\* configured it attempts none and returns success = false with an error
\* and without counts.
C13_FanOutCountsWhenConfigured ==
    probe.op = "sendToUser" =>
        IF configured
        THEN /\ probe.attempts = probe.subs
             /\ DOMAIN probe.result = {"success", "deliveredTo", "total"}
             /\ probe.result.total = Len(probe.subs)
             /\ probe.result.deliveredTo = Accepted
             /\ probe.result.success = (probe.result.deliveredTo >= 1)
        ELSE /\ probe.attempts = <<>>
             /\ DOMAIN probe.result = {"success", "error"}
             /\ ~probe.result.success

\* Three endpoints, the first answering 410 and the other two accepting:
\* deliveredTo = 2 and total = 3.
C13_Witness ==
    /\ probe.op = "sendToUser"
    /\ configured
    /\ Len(probe.subs) = 3
    /\ probe.answers[probe.subs[1]] = "gone"
    /\ probe.answers[probe.subs[2]] = "ok"
    /\ probe.answers[probe.subs[3]] = "ok"
    /\ probe.result.success
    /\ probe.result.deliveredTo = 2
    /\ probe.result.total = 3

\* C14: a sendToUser call removes from the stored subscription set exactly
\* the endpoints that answered 404 or 410 in that pass (none when the store
\* rejects the update), keeps the others in their order, and changes no
\* other field of the preferences.
C14_PruneExactlyGone ==
    [][(probe'.op = "sendToUser" /\ probe' # probe) =>
        LET u == probe'.user
            gone == {e \in SeqToSet(probe'.attempts) : probe'.answers[e] = "gone"}
            removed == SeqToSet(prefs[u].pushSubscriptions)
                         \ SeqToSet(prefs'[u].pushSubscriptions)
        IN /\ removed \subseteq gone
           /\ (removed = gone) \/ (removed = {} /\ ~probe'.pruned)
           /\ probe'.pruned => removed = gone
           /\ prefs'[u].pushSubscriptions =
                SelectSeq(prefs[u].pushSubscriptions, LAMBDA e : e \notin removed)
           /\ [prefs'[u] EXCEPT !.pushSubscriptions = <<>>]
                = [prefs[u] EXCEPT !.pushSubscriptions = <<>>]
           /\ \A v \in DOMAIN prefs \ {u} : prefs'[v] = prefs[v]
           /\ DOMAIN prefs' = DOMAIN prefs
      ]_vars

\* Of three endpoints one answered 410, one failed otherwise and one
\* accepted; only the first is gone from the stored set.
C14_Witness ==
    /\ probe.op = "sendToUser"
    /\ Len(probe.subs) = 3
    /\ \E a, b, c \in SeqToSet(probe.subs) :
          /\ probe.answers[a] = "gone"
          /\ probe.answers[b] = "error"
          /\ probe.answers[c] = "ok"
          /\ SeqToSet(prefs[probe.user].pushSubscriptions) = {b, c}
    /\ probe.pruned

\* C15: once a stored record's read flag is true, no step makes it false:
\* not markAsRead, markAllRead or markAsClicked, not the in-app delivery of
\* send, not the push completion saving the dispatcher's older in-memory
\* document, and not the digest's flag flip.
C15_ReadNeverReverts ==
    [][\A n \in DOMAIN notifs \cap DOMAIN notifs' :
          notifs[n].read => notifs'[n].read]_vars

\* A record read at 00:00 whose push completion and digest flip both landed
\* at 09:00, after the read.
C15_Witness ==
    \E n \in DOMAIN notifs :
        /\ notifs[n].read
        /\ notifs[n].readAt = 0
        /\ notifs[n].channels.push.delivered
        /\ notifs[n].channels.push.deliveredAt > notifs[n].readAt
        /\ notifs[n].channels.email.delivered
        /\ notifs[n].channels.email.deliveredAt > notifs[n].readAt

\* C16: every stored record with clicked = true has read = true, and the
\* step in which markAsClicked sets clicked on a record sets read as well
\* (leaving a record that was unread with both flags true) and leaves the
\* record's status as it was.
C16_ClickedImpliesRead ==
    [][\A n \in DOMAIN notifs' :
          /\ notifs'[n].clicked => notifs'[n].read
          /\ (n \in DOMAIN notifs /\ ~notifs[n].clicked /\ notifs'[n].clicked)
                => /\ notifs'[n].read
                   /\ notifs'[n].status = notifs[n].status]_vars

\* A record clicked while unread and undelivered: both flags set at the
\* click, status still pending.
C16_Witness ==
    \E n \in DOMAIN notifs :
        /\ notifs[n].clicked
        /\ notifs[n].read
        /\ notifs[n].readAt = notifs[n].clickedAt
        /\ notifs[n].status = "pending"

\* C17: markAsClicked is idempotent: on a record that is already clicked, a
\* further call keeps read and clicked true and changes neither clickedAt
\* nor readAt.  markAsClicked is the only writer of clicked and clickedAt,
\* so a step that changes clickedAt is such a call.
C17_SecondClickChangesNothing ==
    [][\A n \in DOMAIN notifs \cap DOMAIN notifs' :
          notifs[n].clicked =>
             /\ notifs'[n].clicked
             /\ notifs'[n].read
             /\ notifs'[n].clickedAt = notifs[n].clickedAt
             /\ (notifs'[n].clickedAt # notifs[n].clickedAt
                   => notifs'[n].readAt = notifs[n].readAt)]_vars

\* C18: a markAllRead(userId, category) call sets read = true and status =
\* read on exactly the records whose recipient is userId, that are unread and
\* whose category is the given one (any category when none is given); every
\* other record (other category, other recipient, already read) is left as
\* it was, and on the records it flips nothing else than read, readAt and
\* status changes.  A markAllRead step is a step that dispatches nothing and
\* changes no clicked flag.
C18_MarkAllReadFrame ==
    [][(/\ nextId' = nextId
        /\ \A n \in DOMAIN notifs :
              n \in DOMAIN notifs' /\ notifs'[n].clicked = notifs[n].clicked)
       => /\ probe'.op = "markAllRead"
          /\ DOMAIN notifs' = DOMAIN notifs
          /\ \A n \in DOMAIN notifs :
                IF /\ notifs[n].recipient = probe'.user
                   /\ ~notifs[n].read
                   /\ (probe'.category = "none"
                         \/ notifs[n].category = probe'.category)
                THEN /\ notifs'[n].read
                     /\ notifs'[n].status = "read"
                     /\ notifs'[n] = [notifs[n] EXCEPT
                                        !.read = TRUE, !.status = "read",
                                        !.readAt = notifs'[n].readAt]
                ELSE notifs'[n] = notifs[n]]_vars

\* After markAllRead("u1", "social"): a social record of u1 flipped to
\* read, a record of u1 in another category and a social record of u2 still
\* unread, and a record read earlier through a click still with the status
\* it had.
C18_Witness ==
    /\ probe.op = "markAllRead"
    /\ probe.user = "u1"
    /\ probe.category = "social"
    /\ \E a, b, c, d \in DOMAIN notifs :
          /\ notifs[a].recipient = "u1" /\ notifs[a].category = "social"
          /\ notifs[a].read /\ notifs[a].status = "read" /\ ~notifs[a].clicked
          /\ notifs[b].recipient = "u1" /\ notifs[b].category = "content"
          /\ ~notifs[b].read /\ notifs[b].status = "pending"
          /\ notifs[c].recipient = "u2" /\ notifs[c].category = "social"
          /\ ~notifs[c].read /\ notifs[c].status = "pending"
          /\ notifs[d].recipient = "u1" /\ notifs[d].category = "social"
          /\ notifs[d].clicked /\ notifs[d].read /\ notifs[d].status = "pending"

\* C19: no stored record has a delivered channel (inApp, push or email, the
\* email flag flipped by the digest included) while its status is pending:
\* the first delivery moves the status from pending to delivered.
C19_NoDeliveredChannelWhilePending ==
    \A n \in DOMAIN notifs :
        (\E ch \in DOMAIN notifs[n].channels : notifs[n].channels[ch].delivered)
           => notifs[n].status # "pending"

\* C20: within one scan, a failure while one matched user is processed (the
\* fetch rejects, rendering or the transport fails, or the flag update
\* rejects) does not end the scan: every step of a running scan either stays
\* with the user at the head of the queue or moves to the next matched user,
\* who is then fetched; no matched user behind the head is dropped.  The
\* users behind a failed one are therefore still fetched, sent and flagged.
C20_FailureDoesNotStopScan ==
    [][\A k \in Kinds :
          scan[k].pc # "idle" =>
             LET rest == Tail(scan[k].queue)
             IN \/ /\ scan'[k].queue = scan[k].queue
                   /\ scan'[k].pc \in {scan[k].pc, "send", "flag"}
                \/ /\ scan'[k].queue = rest
                   /\ scan'[k].pc = IF rest = <<>> THEN "idle" ELSE "fetch"]_vars

\* The 09:00 scan matched both users; the digest of the first one failed
\* (its record is left unflagged) and the second user's record was still
\* sent and flagged.
C20_Witness ==
    /\ \A k \in Kinds : scan[k].pc = "idle"
    /\ Len(SetToSeq(Matches("daily", now))) > 1
    /\ \E a, b \in DOMAIN notifs :
          /\ notifs[a].recipient = SetToSeq(Matches("daily", now))[1]
          /\ notifs[b].recipient = SetToSeq(Matches("daily", now))[2]
          /\ events[a].failed
          /\ ~notifs[a].channels.email.delivered
          /\ notifs[b].channels.email.delivered
          /\ events[b].flips > 0

\* The value a reader of document p sees for one field of a channel; a
\* field the stored object lacks reads as "unset".
ChannelField(p, ch, name) ==
    IF name \in DOMAIN p.channels[ch] THEN p.channels[ch][name] ELSE "unset"

\* C21: an updatePreferences call changes only the fields its update names:
\* every channel field, category switch, digest setting and quiet-hours
\* setting the update does not name reads the same before and after, the
\* push subscriptions and the other users' documents are untouched, and the
\* document still has all four channels and all six categories.
C21_UpdateChangesOnlyNamedFields ==
    [][probe'.op = "updatePreferences" =>
         LET u == probe'.user
             up == probe'.updates
             before == Hydrate(IF u \in DOMAIN prefs THEN prefs[u] ELSE DefaultPrefs)
             after == Hydrate(prefs'[u])
         IN /\ \A ch \in Channels, name \in {"enabled", "address"} :
                  (ch \notin DOMAIN up.channels \/ name \notin DOMAIN up.channels[ch])
                     => ChannelField(after, ch, name) = ChannelField(before, ch, name)
            /\ \A c \in Categories, ch \in CatChannels :
                  (c \notin DOMAIN up.categories \/ ch \notin DOMAIN up.categories[c])
                     => after.categories[c][ch] = before.categories[c][ch]
            /\ \A name \in DOMAIN before.digest \ DOMAIN up.digest :
                  after.digest[name] = before.digest[name]
            /\ \A name \in DOMAIN before.quietHours \ DOMAIN up.quietHours :
                  after.quietHours[name] = before.quietHours[name]
            /\ after.pushSubscriptions = before.pushSubscriptions
            /\ DOMAIN after.channels = Channels
            /\ DOMAIN after.categories = Categories
            /\ \A v \in DOMAIN prefs \ {u} : prefs'[v] = prefs[v]]_vars

ConcurrentRequests == {"update", "unsubscribe", "prune"} \cup SubscribeRequests

\* C22: once a preference update, the registrations, an unregistration and
\* a pruning that ran interleaved on one user's document have all completed,
\* none has failed and the document shows every edit: the fields the update
\* named hold the values it gave, the registered endpoints are stored, the
\* unregistered and the pruned endpoint are gone.
C22_NoLostEdit ==
    (DOMAIN requests = ConcurrentRequests /\ Completed = ConcurrentRequests) =>
        LET d == prefs["u1"]
            subs == SeqToSet(d.pushSubscriptions)
        IN /\ \A r \in ConcurrentRequests : requests[r].pc = "ok"
           /\ MergePreferences(d, requests["update"].arg) = d
           /\ \A r \in SubscribeRequests : requests[r].arg \in subs
           /\ requests["unsubscribe"].arg \notin subs
           /\ requests["prune"].arg \cap subs = {}

\* All five requests completed; the update and one registration had loaded
\* the document while it still held both old endpoints, and the update's
\* save landed after every other request.
C22_Witness ==
    /\ DOMAIN requests = ConcurrentRequests
    /\ Completed = ConcurrentRequests
    /\ requests["update"].doc.pushSubscriptions = <<"e1", "e2">>
    /\ requests["update"].after = ConcurrentRequests \ {"update"}
    /\ requests["subscribeA"].doc.pushSubscriptions = <<"e1", "e2", "e3">>
    /\ requests["subscribeA"].after = {"unsubscribe", "prune"}
    /\ requests["subscribeB"].arg = "e4"

\* C23: a user's pushSubscriptions is a set keyed by endpoint: whatever the
\* interleaving of registrations (of the same endpoint too), unregistration
\* and pruning, no endpoint is stored twice for one user.
C23_EndpointsUnique ==
    \A u \in DOMAIN prefs :
        Cardinality(SeqToSet(prefs[u].pushSubscriptions))
            = Len(prefs[u].pushSubscriptions)

\* The requests that inserted a preferences document.
Creators == {r \in DOMAIN requests : ~requests[r].found /\ requests[r].pc = "ok"}

\* C24: preferences are get-or-create.  Whatever the interleaving of
\* getPreferences, send, updatePreferences and a registration for a user who
\* had no document, at most one of them inserts a document, a document
\* exists as soon as one of them has completed, and the document holds the
\* schema defaults apart from what the update and the registration that
\* succeeded have set.
C24_GetOrCreate ==
    /\ Cardinality(Creators) <= 1
    /\ (Completed # {}) => ("u1" \in DOMAIN prefs /\ Cardinality(Creators) = 1)
    /\ "u1" \in DOMAIN prefs =>
          LET updated == "update" \in DOMAIN requests /\ requests["update"].pc = "ok"
              registered == "subscribeA" \in DOMAIN requests
                            /\ requests["subscribeA"].pc = "ok"
              base == IF updated
                      THEN MergePreferences(DefaultPrefs, requests["update"].arg)
                      ELSE DefaultPrefs
          IN prefs["u1"] =
               [base EXCEPT !.pushSubscriptions =
                   IF registered THEN <<requests["subscribeA"].arg>> ELSE <<>>]

\* All four requests found no document; the one that saved first created
\* it and the create of each of the other three was rejected.
C24_Witness ==
    /\ DOMAIN requests = {"get", "send", "update", "subscribeA"}
    /\ Completed = DOMAIN requests
    /\ \A r \in DOMAIN requests : ~requests[r].found
    /\ requests["update"].pc = "ok"
    /\ requests["update"].arg = DigestChange("frequency", "weekly")
    /\ \A r \in DOMAIN requests \ {"update"} : requests[r].pc = "error"
    /\ prefs["u1"].digest.frequency = "weekly"

\* C25: a markRead, trackClick or delete request whose id names no stored
\* record, or a record of another recipient than the caller, changes no
\* stored record, and markRead and trackClick answer that the record was
\* not found.  A step that dispatches nothing is one of these requests.
C25_ForeignOrMissingId ==
    [][(nextId' = nextId /\ ~FindOwned(notifs, probe'.id, probe'.user)) =>
          /\ notifs' = notifs
          /\ probe'.op \in {"markRead", "trackClick"} => probe'.status = "404"]_vars

\* C26: records whose expiresAt has passed are left out of the listings of
\* getNotifications (getAll) and getUnread and of the unread count, so the
\* unread count of a getNotifications answer is the number of the user's
\* unread records that had not expired at the time of the request; the
\* expired records stay stored.
C26_ExpiredExcluded ==
    /\ probe.op \in {"getNotifications", "getUnread"} =>
          \A i \in 1..Len(probe.notifications) :
             LET d == notifs[probe.notifications[i]]
             IN "expiresAt" \in DOMAIN d => d.expiresAt >= probe.at
    /\ probe.op = "getNotifications" =>
          probe.unreadCount =
             Cardinality({n \in DOMAIN notifs :
                            /\ notifs[n].recipient = probe.user
                            /\ ~notifs[n].read
                            /\ ("expiresAt" \in DOMAIN notifs[n]
                                  => notifs[n].expiresAt >= probe.at)})
    /\ DOMAIN notifs = 1..MaxNotifs

\* The users a scan of the given kind is to serve at time t, as the claim
\* puts it: frequency of that kind, digest.time in the hour of t and, for
\* the weekly scan, dayOfWeek the weekday of t.
ToServe(kind, t) ==
    {u \in DOMAIN prefs :
        /\ prefs[u].digest.frequency = kind
        /\ prefs[u].digest.frequency # "never"
        /\ prefs[u].digest.time[1] = t % 24
        /\ (kind = "weekly" => prefs[u].digest.dayOfWeek = WeekdayOf(t))}

\* C27: the tick at hour h of weekday d hands each scan exactly the users
\* whose preferences then name its frequency, the hour h and, for the weekly
\* scan, the weekday d; no user joins a running scan; and a digest is sent
\* only to the user the scan is at, and only with a non-empty batch of that
\* user's records that are marked for the digest, not yet flagged and
\* inside the lookback window.
C27_ScanMatching ==
    [][\A k \in Kinds :
          /\ now' # now => /\ SeqToSet(scan'[k].queue) = ToServe(k, now')
                           /\ Len(scan'[k].queue) = Cardinality(ToServe(k, now'))
          /\ now' = now => SeqToSet(scan'[k].queue) \subseteq SeqToSet(scan[k].queue)
          /\ scan'[k].pc = "send" =>
                /\ scan'[k].batch # {}
                /\ \A n \in scan'[k].batch :
                      /\ n \in DOMAIN notifs
                      /\ notifs[n].recipient = Head(scan'[k].queue)
                      /\ notifs[n].channels.email.includeInDigest
                      /\ ~notifs[n].channels.email.delivered
                      /\ notifs[n].createdAt >= now - LookbackHours(k)]_vars

\* The weekly scan is sending to the user who chose the weekly digest on
\* this weekday, while the other user, on the daily digest, is in the daily
\* scan only.
C27_Witness ==
    /\ scan["weekly"].pc = "send"
    /\ prefs[Head(scan["weekly"].queue)].digest.dayOfWeek = WeekdayOf(now)
    /\ scan["weekly"].queue = <<"u1">>
    /\ "u2" \in SeqToSet(scan["daily"].queue)

\* C28: at each tick, however many users match, the users a scan goes
\* through are all the users whose preferences match it at that tick.
C28_EveryMatchedUserProcessed ==
    [][\A k \in Kinds :
          now' # now => SeqToSet(scan'[k].queue) = Matches(k, now')]_vars

\* C29: a stored record has inApp.delivered set, with the dispatch time as
\* deliveredAt, exactly when shouldSend allowed in-app and the recipient had
\* a live session at dispatch, and then exactly one live emission was made;
\* otherwise no emission was made, then or later, and a send that returned
\* has stored the record with inApp.delivered clear.
C29_InAppLiveOnly ==
    \A n \in DOMAIN events :
        LET f == events[n].facts
            live == f.inAppAllowed /\ f.online
        IN /\ events[n].emissions = IF live THEN 1 ELSE 0
           /\ events[n].outcome = "returned" => n \in DOMAIN notifs
           /\ n \in DOMAIN notifs =>
                /\ notifs[n].channels.inApp.delivered = live
                /\ (notifs[n].channels.inApp.deliveredAt # NoTime) = live
                /\ live => notifs[n].channels.inApp.deliveredAt = notifs[n].createdAt

\* An event was dispatched to a recipient with a live session who had
\* switched in-app off: the send returned, no emission was made, and the
\* stored record, after the push fan-out completed, has inApp.delivered
\* clear.
C29_Witness ==
    \E n \in DOMAIN notifs :
        /\ events[n].facts.online
        /\ ~events[n].facts.inAppAllowed
        /\ events[n].outcome = "returned"
        /\ events[n].emissions = 0
        /\ events[n].fanouts = 1
        /\ n \notin DOMAIN inflight
        /\ notifs[n].channels.push.delivered
        /\ ~notifs[n].channels.inApp.delivered

\* What a step leaves of a record when the push delivery fields and the
\* status are put aside.
OutsidePush(doc) ==
    [doc EXCEPT !.channels.push = "-", !.status = "-"]

\* C30: a send leaves its record stored with push.delivered clear while the
\* fan-out it started is still on its way; push.delivered is set only by
\* the completion of that fan-out, only when an endpoint accepted the push,
\* and that step changes of the stored record nothing but the push
\* delivery fields and the status, the status only from pending to
\* delivered; a record whose push was not allowed, was suppressed or was
\* accepted by no endpoint keeps push.delivered clear.
C30_PushFireAndForget ==
    [][\A n \in DOMAIN events' :
          LET sent == n \notin DOMAIN events
              completed == n \in DOMAIN inflight /\ n \notin DOMAIN inflight'
              stored == n \in DOMAIN notifs /\ n \in DOMAIN notifs'
          IN /\ sent =>
                  /\ events'[n].fanouts = 1 => n \in DOMAIN inflight'
                  /\ n \in DOMAIN notifs' => ~notifs'[n].channels.push.delivered
             /\ events'[n].fanouts = 0 =>
                  (n \in DOMAIN notifs' => ~notifs'[n].channels.push.delivered)
             /\ (stored /\ notifs'[n].channels.push.delivered
                         /\ ~notifs[n].channels.push.delivered) =>
                  (completed /\ probe'.op = "pushComplete" /\ probe'.success)
             /\ (stored /\ completed) =>
                  /\ OutsidePush(notifs'[n]) = OutsidePush(notifs[n])
                  /\ notifs'[n].status # notifs[n].status =>
                        (notifs[n].status = "pending"
                            /\ notifs'[n].status = "delivered")
                  /\ ~probe'.success => notifs'[n] = notifs[n]]_vars

\* C31: every stored notification has status pending, delivered or read,
\* retryCount 0 and no lastRetryAt, whatever sends, fan-outs and digests
\* failed.
C31_NeverFailedNeverRetried ==
    \A n \in DOMAIN notifs :
        /\ notifs[n].status \in {"pending", "delivered", "read"}
        /\ notifs[n].retryCount = 0
        /\ notifs[n].lastRetryAt = NoTime

\* A record whose push fan-out completed with no endpoint accepting and
\* whose digest send failed is stored, still pending.
C31_Witness ==
    \E n \in DOMAIN notifs :
        /\ events[n].fanouts = 1
        /\ n \notin DOMAIN inflight
        /\ ~notifs[n].channels.push.delivered
        /\ events[n].failed
        /\ notifs[n].status = "pending"

\* The type -> category table as the claim gives it.
TableCategory(type) ==
    CASE type \in {"like", "comment", "follow", "mention", "reply"} -> "social"
      [] type \in {"share", "post"} -> "content"
      [] type = "message" -> "messaging"
      [] type = "event" -> "events"
      [] OTHER -> "system"

\* C32: a send whose payload has no category stores the category the table
\* gives for the type, a send whose payload has one stores that one, and
\* the in-app, push and email decisions of the send are those of shouldSend
\* on the recipient's preferences for the resulting category.
C32_CategoryFromTypeOrPayload ==
    [][\A n \in DOMAIN events' \ DOMAIN events :
          LET f == events'[n].facts
              r == events'[n].recipient
              category == IF f.given # "none" THEN f.given ELSE TableCategory(f.type)
              p == Hydrate(IF r \in DOMAIN prefs THEN prefs[r] ELSE DefaultPrefs)
          IN /\ n \in DOMAIN notifs' => notifs'[n].category = category
             /\ f.inAppAllowed = ShouldSend(p, "inApp", category)
             /\ f.pushAllowed = ShouldSend(p, "push", category)
             /\ (f.email # "off") = ShouldSend(p, "email", category)]_vars

\* A 'like' event whose payload names the marketing category is stored as
\* marketing, with in-app allowed and push and email not allowed, where the
\* table would have given social.
C32_Witness ==
    \E n \in DOMAIN notifs :
        /\ events[n].facts.type = "like"
        /\ events[n].facts.given = "marketing"
        /\ notifs[n].category = "marketing"
        /\ events[n].facts.inAppAllowed
        /\ ~events[n].facts.pushAllowed
        /\ events[n].facts.email = "off"

\* C33: a stored notification whose status is read keeps that status in
\* every later step: no push completion and no digest flag flip moves it to
\* delivered or pending.
C33_ReadStatusIsFinal ==
    [][\A n \in DOMAIN notifs \cap DOMAIN notifs' :
          notifs[n].status = "read" => notifs'[n].status = "read"]_vars

\* The events whose record was stored and has been deleted since.
Deleted == {n \in DOMAIN events : events[n].inserts > 0 /\ n \notin DOMAIN notifs}

\* C34: a record deleted by its recipient is never stored again; the push
\* completion of a deleted record changes no record, and a digest flag flip
\* whose batch holds a deleted record changes no record outside its batch.
C34_DeletedStaysDeleted ==
    [][\A n \in Deleted :
          /\ n \notin DOMAIN notifs'
          /\ events'[n].inserts = events[n].inserts
          /\ (n \in DOMAIN inflight /\ n \notin DOMAIN inflight') => notifs' = notifs
          /\ \A k \in Kinds :
                (scan[k].pc = "flag" /\ scan'[k].pc # "flag" /\ n \in scan[k].batch) =>
                    \A m \in DOMAIN notifs \ scan[k].batch : notifs'[m] = notifs[m]]_vars

\* A record was deleted while the digest scan held it in its batch and its
\* push fan-out was in flight; the fan-out has completed, the flag flip has
\* run on the rest of the batch, and the record is still gone.
C34_Witness ==
    \E n \in Deleted :
        /\ events[n].fanouts = 1
        /\ n \notin DOMAIN inflight
        /\ \E m \in DOMAIN notifs :
              /\ events[m].flips = 1
              /\ events[n].flips = 0
              /\ ~events[n].failed
              /\ \A k \in Kinds : scan[k].pc = "idle"

\* The ticks up to time t at which the user's settings match a scan.
MatchingTicks(u, t) ==
    {t2 \in 0..t :
        /\ HourOf(t2) \in TickHours
        /\ t2 > 0
        /\ HourOf(t2) = prefs[u].digest.time[1]
        /\ prefs[u].digest.frequency \in Kinds
        /\ (prefs[u].digest.frequency = "weekly" =>
                WeekdayOf(t2) = prefs[u].digest.dayOfWeek)}

\* The record was dispatched for the digest before the given tick.
AwaitsDigest(n, tick) ==
    /\ n \in DOMAIN notifs
    /\ notifs[n].channels.email.includeInDigest
    /\ notifs[n].createdAt < tick

Digested(n) ==
    n \in DOMAIN notifs => (notifs[n].channels.email.delivered /\ events[n].flips = 1)

C36_NoDigestWithEmailOff ==
    [][\A k \in Kinds :
          (scan[k].pc = "send" /\ scan'[k].pc = "flag") =>
              Hydrate(prefs[Head(scan[k].queue)]).channels["email"].enabled]_vars


\* C37: a CLOSED circuit moves to OPEN in exactly those steps in which a call
\* fails and failureThreshold failures have then occurred in a row with no
\* success in between; a success while CLOSED sets failureCount to 0; so a
\* CLOSED circuit with fewer failures in a row than that stays CLOSED.
Emitted(event) == event \in SeqToSet(circuit'.last.emitted)

C37_OpensAtThreshold ==
    [][circuit.state = "CLOSED" =>
         /\ (circuit'.state = "OPEN") <=>
               /\ Emitted("failure")
               /\ circuit'.observed.streak = failureThreshold
         /\ Emitted("success") => circuit'.failureCount = 0
         /\ circuit'.observed.streak < failureThreshold =>
               circuit'.state = "CLOSED"
         /\ circuit.failureCount = circuit.observed.streak]_vars

C37_Witness ==
    /\ circuit.state = "OPEN"
    /\ circuit.last.call = "settle"
    /\ circuit.observed.streak = failureThreshold
    /\ circuit.metrics.successfulRequests > 0
    /\ circuit.metrics.failedRequests > failureThreshold


\* C38: while the circuit is OPEN and less than cooldownPeriod has passed
\* since 'open' was last emitted, no step invokes the action, and a call of
\* execute leaves the circuit OPEN, counts one short-circuited request and
\* ends with the fallback's result, or with the circuit-open error when it
\* has no fallback; a call of execute on an OPEN circuit after more than
\* cooldownPeriod moves it to HALF_OPEN and invokes the action.
OpenFor == circuit.clock - circuit.observed.openedAt

C38_OpenShortCircuits ==
    [][circuit.state = "OPEN" =>
         /\ OpenFor < cooldownPeriod => circuit'.invoked = circuit.invoked
         /\ \A fallback \in BOOLEAN :
              Execute(fallback) /\ OpenFor < cooldownPeriod =>
                /\ circuit'.state = "OPEN"
                /\ circuit'.running = circuit.running
                /\ circuit'.metrics.shortCircuitedRequests =
                     circuit.metrics.shortCircuitedRequests + 1
                /\ circuit'.last.result =
                     IF fallback THEN "fallback" ELSE "circuitOpenError"
         /\ \A fallback \in BOOLEAN :
              Execute(fallback) /\ OpenFor > cooldownPeriod =>
                /\ circuit'.state = "HALF_OPEN"
                /\ circuit'.invoked = circuit.invoked + 1
                /\ circuit'.metrics.shortCircuitedRequests =
                     circuit.metrics.shortCircuitedRequests]_vars

C38_Witness ==
    /\ circuit.state = "HALF_OPEN"
    /\ circuit.last.call = "execute"
    /\ OpenFor > cooldownPeriod
    /\ circuit.metrics.shortCircuitedRequests >= 2
    /\ circuit.invoked = failureThreshold + 1


\* C39: a call that fails while the circuit is HALF_OPEN returns it to OPEN
\* with nextAttemptTime a whole cooldownPeriod ahead; the circuit becomes
\* CLOSED only from HALF_OPEN, only when successThreshold successes have
\* been counted since it entered HALF_OPEN, and then with failureCount and
\* successCount 0; the state is always CLOSED, OPEN or HALF_OPEN.
CircuitStates == {"CLOSED", "OPEN", "HALF_OPEN"}

C39_HalfOpenProbes ==
    [][/\ circuit.state \in CircuitStates /\ circuit'.state \in CircuitStates
       /\ circuit.state = "HALF_OPEN" /\ Emitted("failure") =>
            /\ circuit'.state = "OPEN"
            /\ circuit'.nextAttemptTime = circuit.clock + cooldownPeriod
            /\ circuit'.observed.openedAt = circuit.clock
       /\ circuit.state # "CLOSED" /\ circuit'.state = "CLOSED" =>
            /\ circuit.state = "HALF_OPEN"
            /\ circuit'.observed.counted = successThreshold
            /\ circuit'.failureCount = 0
            /\ circuit'.successCount = 0
       /\ circuit.state = "HALF_OPEN" /\ circuit'.state = "HALF_OPEN" =>
            circuit'.observed.counted < successThreshold]_vars

C39_Witness ==
    /\ circuit.state = "CLOSED"
    /\ "closed" \in SeqToSet(circuit.last.emitted)
    /\ circuit.observed.counted = successThreshold
    /\ circuit.metrics.failedRequests = failureThreshold + 1
    /\ circuit.metrics.shortCircuitedRequests > 0


\* C40: a backup code authenticates a user at most once: when a call of
\* authenticate has accepted a backup code, the code is no longer among the
\* user's stored backupCodes, and no other call, later or overlapping, has
\* been accepted with the same code of the same user.
AcceptedByCode == {r \in Authenticated : requests[r].path = "backup"}

C40_BackupCodeOnce ==
    \A r \in AcceptedByCode :
        /\ requests[r].arg \notin SeqToSet(accounts[requests[r].user].backupCodes)
        /\ \A other \in AcceptedByCode \ {r} :
              ~ /\ requests[other].user = requests[r].user
                /\ requests[other].arg = requests[r].arg

====
